---- MODULE Spec2Model ----
(***************************************************************************)
(* NTU graduation credit calculator: the course list held by App, the     *)
(* handlers that change it, and the SummaryCard aggregation (per-category  *)
(* earned / projected credits, current and projected GPA).                 *)
(*                                                                         *)
(* JavaScript numbers are IEEE-754 doubles.  Credits are small integers    *)
(* and are exact; grade points (4.3, 3.7, ...) are not, so the GPA         *)
(* arithmetic is modelled bit-exactly (section "Doubles") instead of over  *)
(* the rationals.                                                          *)
(***************************************************************************)
EXTENDS Integers, Sequences, FiniteSets, TLC

VARIABLES
    courses,            \* App: useState<Course[]>([])
    requirements,       \* App: useState(ACCOUNTING_111_REQUIREMENTS)
    isLoading,          \* App: useState(true)
    isInitialized,      \* App: useState(false)
    isImportModalOpen,  \* App: useState(false)
    totals,             \* SummaryCard: the accumulator object of the last render
    syncStatus,         \* App: useState('idle')
    timers,             \* the pending timeouts of the save effect
    handler,            \* the timeout the last run of the save effect set
    requests,           \* POST requests on their way to the basket
    responses,          \* their outcomes on the way back
    basket,             \* the remote basket, once the session has written to it
    fetchData,          \* App: where the async function fetchData stands
    editingId,          \* CourseTable: useState<string | null>(null)
    editValues,         \* CourseTable: useState<Course | null>(null)
    step,               \* TranscriptImportModal: useState('input')
    rawText,            \* TranscriptImportModal: useState('')
    selectedFile,       \* TranscriptImportModal: useState<File | null>(null)
    isAnalyzing,        \* TranscriptImportModal: useState(false)
    parsedCourses,      \* TranscriptImportModal: useState<ParsedCourse[]>([])
    error,              \* TranscriptImportModal: useState<string | null>(null)
    analysis            \* TranscriptImportModal: where handleAnalyze stands

vars ==
    <<courses, requirements, isLoading, isInitialized, isImportModalOpen, totals,
      syncStatus, timers, handler, requests, responses, basket, fetchData,
      editingId, editValues, step, rawText, selectedFile, isAnalyzing, parsedCourses,
      error, analysis>>

\* The state of App and SummaryCard, and the state of the network.
appVars == <<courses, requirements, isLoading, isInitialized, isImportModalOpen, totals>>
netVars == <<requests, responses, basket>>

\* The state of CourseTable and the state of TranscriptImportModal.
tableVars == <<editingId, editValues>>
modalVars == <<step, rawText, selectedFile, isAnalyzing, parsedCourses, error, analysis>>

(***************************************************************************)
(* Bounds of the model.                                                    *)
(***************************************************************************)
MaxCourses == 2
MaxOrderCourses == 3
MaxTableCourses == 4
MaxSaveCourses == 1
MaxInFlight == 2
MaxRows == 2
MaxGradeRows == 1

(***************************************************************************)
(* Doubles.  A non-negative double x below 2^12 that is zero or at least   *)
(* 2^-7 is a multiple of 2^-60, so it is held as the integer x * 2^60,     *)
(* written in three limbs of 24 bits <<a2, a1, a0>> (most significant      *)
(* first).  Every value of the GPA computation lies in that range as long  *)
(* as the summed credits stay below 100.  Each operation computes the      *)
(* exact result and rounds it to 53 significant bits, ties to even, as     *)
(* IEEE-754 prescribes.                                                    *)
(***************************************************************************)
Limb == 2^24

Pow2(n) == 2^n

\* Number of bits of the natural number n (0 for 0).
RECURSIVE BitLen(_)
BitLen(n) == IF n = 0 THEN 0 ELSE 1 + BitLen(n \div 2)

\* Carry propagation: limbs t2, t1, t0 (t1, t0 possibly >= Limb) to normal form.
Normalize(t2, t1, t0) ==
    LET c0 == t0 \div Limb
        u1 == t1 + c0
        c1 == u1 \div Limb
    IN  <<t2 + c1, u1 % Limb, t0 % Limb>>

\* Round the exact value <<t2, t1, t0>> (+ a non-zero fraction below one unit
\* when sticky) to the nearest double, ties to even.
RoundD(t, sticky) ==
    LET drop == IF t[1] < 32 THEN 0 ELSE BitLen(t[1]) - 5
        p    == Pow2(drop)
        low  == t[3] % p
        kept == t[3] - low
        odd  == (t[3] \div p) % 2 = 1
        up   == \/ 2 * low > p
                \/ 2 * low = p /\ (sticky \/ odd)
    IN  IF drop = 0 THEN t
        ELSE IF up THEN Normalize(t[1], t[2], kept + p)
        ELSE <<t[1], t[2], kept>>

\* The double of a small natural number.
IntD(n) == <<n * 4096, 0, 0>>

ZeroD == IntD(0)

\* x * c for a double x and a natural number c < 100.
MulD(x, c) == RoundD(Normalize(x[1] * c, x[2] * c, x[3] * c), FALSE)

\* x + y
AddD(x, y) == RoundD(Normalize(x[1] + y[1], x[2] + y[2], x[3] + y[3]), FALSE)

\* x / c for a double x and a natural number 0 < c < 2^19: long division over
\* the halves of the limbs, then rounding.
DivD(x, c) ==
    LET Half == 4096
        q5 == (x[1] \div Half) \div c
        r5 == (x[1] \div Half) % c
        n4 == r5 * Half + (x[1] % Half)
        q4 == n4 \div c
        r4 == n4 % c
        n3 == r4 * Half + (x[2] \div Half)
        q3 == n3 \div c
        r3 == n3 % c
        n2 == r3 * Half + (x[2] % Half)
        q2 == n2 \div c
        r2 == n2 % c
        n1 == r2 * Half + (x[3] \div Half)
        q1 == n1 \div c
        r1 == n1 % c
        n0 == r1 * Half + (x[3] % Half)
        q0 == n0 \div c
        r0 == n0 % c
    IN  RoundD(<<q5 * Half + q4, q3 * Half + q2, q1 * Half + q0>>, r0 # 0)

\* Faulty variant of Hundredths: the digits after the second are cut off.
Hundredths_Truncated(x) ==
    Normalize(x[1] * 100, x[2] * 100, x[3] * 100)[1] \div 4096

\* Number.prototype.toFixed(2): the integer n for which n / 100 - x is as close
\* to zero as possible, the larger n when there are two; as hundredths.
Hundredths(x) ==
    LET y == Normalize(x[1] * 100, x[2] * 100, x[3] * 100)
    IN  (y[1] \div 4096) + (IF y[1] % 4096 >= 2048 THEN 1 ELSE 0)

DigitChar == <<"0", "1", "2", "3", "4", "5", "6", "7", "8", "9">>

RECURSIVE IntDigits(_)
IntDigits(n) ==
    IF n < 10 THEN <<DigitChar[n + 1]>>
    ELSE Append(IntDigits(n \div 10), DigitChar[(n % 10) + 1])

\* The string toFixed(2) returns, as its sequence of characters.
ToFixed2(x) ==
    LET n == Hundredths(x)
    IN  IntDigits(n \div 100)
            \o <<".", DigitChar[((n % 100) \div 10) + 1], DigitChar[(n % 10) + 1]>>

(***************************************************************************)
(* Data model (types.ts).  Categories are written with the English names   *)
(* of the specification; the source holds the Chinese labels.              *)
(***************************************************************************)
CourseCategory ==
    {"CommonRequired", "DeptRequired", "DesignatedElective", "GeneralElective",
     "GeneralEducation", "PhysicalEducation", "Other"}

\* Faulty variant of GRADE_POINTS: Pass is worth 0 points instead of -1.
GRADE_POINTS_PassIsZero ==
    [g \in {"A+", "A", "A-", "B+", "B", "B-", "C+", "C", "C-", "F", "Pass"} |->
        CASE g = "A+" -> 43 [] g = "A"  -> 40 [] g = "A-" -> 37
          [] g = "B+" -> 33 [] g = "B"  -> 30 [] g = "B-" -> 27
          [] g = "C+" -> 23 [] g = "C"  -> 20 [] g = "C-" -> 17
          [] g = "F"  -> 0  [] g = "Pass" -> 0]

\* GRADE_POINTS, in tenths of a point; the source holds the doubles 4.3, 4.0, ...
GRADE_POINTS ==
    [g \in {"A+", "A", "A-", "B+", "B", "B-", "C+", "C", "C-", "F", "Pass"} |->
        CASE g = "A+" -> 43 [] g = "A"  -> 40 [] g = "A-" -> 37
          [] g = "B+" -> 33 [] g = "B"  -> 30 [] g = "B-" -> 27
          [] g = "C+" -> 23 [] g = "C"  -> 20 [] g = "C-" -> 17
          [] g = "F"  -> 0  [] g = "Pass" -> -10]

Grade == DOMAIN GRADE_POINTS

ACCOUNTING_111_REQUIREMENTS ==
    [total |-> 133, commonRequired |-> 9, deptRequired |-> 69,
     designatedElective |-> 21, generalElective |-> 19, generalEducation |-> 15]

\* A Course.  isCurrent is optional: a record loaded from older data has no such
\* field, which reads as undefined (falsy).
Course(id, semester, name, credits, category, grade, isCurrent) ==
    [id |-> id, semester |-> semester, name |-> name, credits |-> credits,
     category |-> category, grade |-> grade, isCurrent |-> isCurrent]

LegacyCourse(id, semester, name, credits, category, grade) ==
    [id |-> id, semester |-> semester, name |-> name, credits |-> credits,
     category |-> category, grade |-> grade]

\* Faulty variant of IsCurrent: a missing flag read as in progress.
IsCurrent_AbsentIsCurrent(course) ==
    "isCurrent" \notin DOMAIN course \/ course.isCurrent

\* course.isCurrent used as a condition.
IsCurrent(course) == "isCurrent" \in DOMAIN course /\ course.isCurrent

(***************************************************************************)
(* SummaryCard: credit totals.                                             *)
(***************************************************************************)
Bucket == [earned |-> 0, projected |-> 0]

initialAcc ==
    [total |-> Bucket, commonRequired |-> Bucket, deptRequired |-> Bucket,
     designatedElective |-> Bucket, generalElective |-> Bucket,
     generalEducation |-> Bucket]

BucketKeys ==
    {"commonRequired", "deptRequired", "designatedElective", "generalElective",
     "generalEducation"}

\* Faulty variant of targetKey: another fallback bucket.
targetKey_FallbackGeneralEducation(category) ==
    CASE category = "CommonRequired"     -> "commonRequired"
      [] category = "DeptRequired"       -> "deptRequired"
      [] category = "DesignatedElective" -> "designatedElective"
      [] category = "GeneralElective"    -> "generalElective"
      [] OTHER                           -> "generalEducation"

targetKey(category) ==
    CASE category = "CommonRequired"     -> "commonRequired"
      [] category = "DeptRequired"       -> "deptRequired"
      [] category = "DesignatedElective" -> "designatedElective"
      [] category = "GeneralElective"    -> "generalElective"
      [] category = "GeneralEducation"   -> "generalEducation"
      [] OTHER                           -> "generalElective"

\* Faulty variant of addCredits: in-progress credits miss the total.
addCredits_BucketOnly(acc, key, course) ==
    IF "isCurrent" \in DOMAIN course /\ course.isCurrent
    THEN [acc EXCEPT ![key].projected = @ + course.credits]
    ELSE [acc EXCEPT ![key].earned = @ + course.credits,
                     !.total.earned = @ + course.credits]

\* "Add to specific category": the bucket and the total, projected or earned.
addCredits(acc, key, course) ==
    IF IsCurrent(course)
    THEN [acc EXCEPT ![key].projected = @ + course.credits,
                     !.total.projected = @ + course.credits]
    ELSE [acc EXCEPT ![key].earned = @ + course.credits,
                     !.total.earned = @ + course.credits]

\* Faulty variant of reduceStep: physical education is not skipped.
reduceStep_CountsPE(acc, course) ==
    addCredits(acc, targetKey(course.category), course)

\* The reducer's callback.
reduceStep(acc, course) ==
    IF course.category = "PhysicalEducation" THEN acc
    ELSE addCredits(acc, targetKey(course.category), course)

RECURSIVE reduce(_, _)
reduce(cs, acc) ==
    IF cs = <<>> THEN acc ELSE reduce(Tail(cs), reduceStep(acc, Head(cs)))

\* Faulty variant of accSeed: the accumulator of the previous render is reused.
accSeed_Shared == totals

\* The reducer's seed: JSON.parse(JSON.stringify(initialAcc)), a fresh copy.
accSeed == initialAcc

SummaryTotals(cs) == reduce(cs, accSeed)

(***************************************************************************)
(* SummaryCard: GPA.                                                       *)
(***************************************************************************)
\* GRADE_POINTS[grade] as the double the source's literal denotes.
PointsD ==
    [g \in {h \in Grade : GRADE_POINTS[h] >= 0} |-> DivD(IntD(GRADE_POINTS[g]), 10)]

\* points >= 0 (false for -1 and for undefined, an unmapped grade)
PointsNonNegative(grade) == grade \in Grade /\ GRADE_POINTS[grade] >= 0

\* Faulty variant of gpaCounts: physical education is graded like any course.
gpaCounts_WithPE(course) ==
    /\ PointsNonNegative(course.grade)
    /\ course.credits > 0

gpaCounts(course) ==
    /\ PointsNonNegative(course.grade)
    /\ course.credits > 0
    /\ course.category # "PhysicalEducation"

gpaStep(p, course) ==
    IF ~gpaCounts(course) THEN p
    ELSE IF IsCurrent(course)
    THEN [p EXCEPT
            !.projectedPoints = AddD(@, MulD(PointsD[course.grade], course.credits)),
            !.projectedCredits = @ + course.credits]
    ELSE [p EXCEPT
            !.earnedPoints = AddD(@, MulD(PointsD[course.grade], course.credits)),
            !.earnedCredits = @ + course.credits]

RECURSIVE forEachGpa(_, _)
forEachGpa(cs, p) ==
    IF cs = <<>> THEN p ELSE forEachGpa(Tail(cs), gpaStep(p, Head(cs)))

gpaPools(cs) ==
    forEachGpa(cs, [earnedPoints |-> ZeroD, earnedCredits |-> 0,
                    projectedPoints |-> ZeroD, projectedCredits |-> 0])

ZeroGPA == <<"0", ".", "0", "0">>

\* Faulty variant of currentGPA: no guard, 0 / 0 is NaN and prints as such.
currentGPA_Unguarded(cs) ==
    LET p == gpaPools(cs)
    IN  IF p.earnedCredits > 0
        THEN ToFixed2(DivD(p.earnedPoints, p.earnedCredits))
        ELSE <<"N", "a", "N">>

currentGPA(cs) ==
    LET p == gpaPools(cs)
    IN  IF p.earnedCredits > 0
        THEN ToFixed2(DivD(p.earnedPoints, p.earnedCredits))
        ELSE ZeroGPA

\* Faulty variant of projectedGPA: the in-progress courses alone.
projectedGPA_TermOnly(cs) ==
    LET p == gpaPools(cs)
    IN  IF p.projectedCredits > 0
        THEN ToFixed2(DivD(p.projectedPoints, p.projectedCredits))
        ELSE ZeroGPA

projectedGPA(cs) ==
    LET p == gpaPools(cs)
        totalProjectedPoints == AddD(p.earnedPoints, p.projectedPoints)
        totalProjectedCredits == p.earnedCredits + p.projectedCredits
    IN  IF totalProjectedCredits > 0
        THEN ToFixed2(DivD(totalProjectedPoints, totalProjectedCredits))
        ELSE ZeroGPA

(***************************************************************************)
(* SummaryCard: the progress bar of a category.                            *)
(***************************************************************************)
\* x <= y for doubles (limbs in normal form compare from the top).
LeD(x, y) ==
    \/ x[1] < y[1]
    \/ x[1] = y[1] /\ x[2] < y[2]
    \/ x[1] = y[1] /\ x[2] = y[2] /\ x[3] <= y[3]

\* Math.min(x, y)
MinD(x, y) == IF LeD(x, y) THEN x ELSE y

\* The exact difference x - y of x >= y, limb by limb with borrows.
Borrow(x, y) ==
    LET b0 == IF x[3] < y[3] THEN 1 ELSE 0
        b1 == IF x[2] - b0 < y[2] THEN 1 ELSE 0
    IN  <<x[1] - y[1] - b1, x[2] - b0 - y[2] + b1 * Limb, x[3] - y[3] + b0 * Limb>>

\* x - y: a sign and a magnitude.  The difference of two of the percentages
\* below is zero or well above 2^-7.
SubD(x, y) ==
    IF LeD(y, x)
    THEN [negative |-> FALSE, magnitude |-> RoundD(Borrow(x, y), FALSE)]
    ELSE [negative |-> TRUE, magnitude |-> RoundD(Borrow(y, x), FALSE)]

\* Faulty variant of renderProgressBar: the second segment is computed from the
\* projected credits alone, as the bar of the total does.
renderProgressBar_ProjectedAlone(earned, projected, max) ==
    LET earnedPct == MinD(MulD(DivD(IntD(earned), max), 100), IntD(100))
        projectedPct == MinD(MulD(DivD(IntD(projected), max), 100), IntD(100))
    IN  [earnedPct |-> earnedPct,
         projectedPct |-> projectedPct,
         extraPct |-> SubD(projectedPct, earnedPct),
         isMet |-> earned >= max,
         isMetProjected |-> projected >= max]

\* renderProgressBar: what it computes from earned, projected and max.
renderProgressBar(earned, projected, max) ==
    LET earnedPct == MinD(MulD(DivD(IntD(earned), max), 100), IntD(100))
        projectedPct == MinD(MulD(DivD(IntD(earned + projected), max), 100), IntD(100))
    IN  [earnedPct |-> earnedPct,
         projectedPct |-> projectedPct,
         extraPct |-> SubD(projectedPct, earnedPct),
         isMet |-> earned >= max,
         isMetProjected |-> (earned + projected) >= max]

\* The five bars of "Specific Categories".
progressBars(acc, req) ==
    [k \in BucketKeys |-> renderProgressBar(acc[k].earned, acc[k].projected, req[k])]

\* The bar of the total ("Total Credits"): two segments side by side, each
\* computed from its own credits and capped on its own.
totalProgressBar(acc, req) ==
    [earnedPct |-> MinD(MulD(DivD(IntD(acc.total.earned), req.total), 100), IntD(100)),
     projectedPct |-> MinD(MulD(DivD(IntD(acc.total.projected), req.total), 100), IntD(100))]

(***************************************************************************)
(* CourseTable: grouping by category and the order of the rows.  A         *)
(* semester label is the sequence of its characters.                       *)
(***************************************************************************)
Digits == {"0", "1", "2", "3", "4", "5", "6", "7", "8", "9"}

\* String.prototype.split(/[^0-9]/): the pieces between the non-digit
\* characters, empty pieces included (one more piece than separators).
RECURSIVE split(_)
split(s) ==
    IF s = <<>> THEN << <<>> >>
    ELSE LET init == split(SubSeq(s, 1, Len(s) - 1))
             last == s[Len(s)]
         IN  IF last \in Digits
             THEN [init EXCEPT ![Len(init)] = Append(@, last)]
             ELSE Append(init, <<>>)

\* NaN, the result of parseInt on a piece without digits.  A piece holds
\* digits only, so no number parsed from one is negative.
NaN == -1

\* The decimal value of a non-empty sequence of digits (-1 for the empty one).
RECURSIVE parseInt(_)
parseInt(ds) ==
    IF ds = <<>> THEN NaN
    ELSE LET d == CHOOSE n \in 0..9 : DigitChar[n + 1] = ds[Len(ds)]
             init == SubSeq(ds, 1, Len(ds) - 1)
         IN  IF init = <<>> THEN d ELSE 10 * parseInt(init) + d

\* Faulty variant of numbersOf: the pieces without digits are kept.
numbersOf_Unfiltered(sem) ==
    LET pieces == split(sem)
    IN  [i \in DOMAIN pieces |-> parseInt(pieces[i])]

\* sem.split(/[^0-9]/).map(s => parseInt(s, 10)).filter(n => !isNaN(n))
numbersOf(sem) ==
    LET pieces == split(sem)
    IN  SelectSeq([i \in DOMAIN pieces |-> parseInt(pieces[i])], LAMBDA n : n # NaN)

\* splitA[i] || 0: undefined (no such element), NaN and 0 all give 0.
orZero(ns, i) == IF i \in DOMAIN ns /\ ns[i] # NaN THEN ns[i] ELSE 0

\* Faulty variant of compareSemesters: the term decides before the year.
compareSemesters_TermFirst(semA, semB) ==
    LET splitA == numbersOf(semA)
        splitB == numbersOf(semB)
    IN  IF orZero(splitA, 2) # orZero(splitB, 2)
        THEN orZero(splitA, 2) - orZero(splitB, 2)
        ELSE orZero(splitA, 1) - orZero(splitB, 1)

compareSemesters(semA, semB) ==
    LET splitA == numbersOf(semA)
        splitB == numbersOf(semB)
        yearA == orZero(splitA, 1)
        yearB == orZero(splitB, 1)
        termA == orZero(splitA, 2)
        termB == orZero(splitB, 2)
    IN  IF yearA # yearB THEN yearA - yearB ELSE termA - termB

\* The course names of the model in the order of the collation that
\* String.prototype.localeCompare applies to them.
Collation == <<"Accounting", "Auditing", "Calculus">>

CollationRank(name) == CHOOSE i \in DOMAIN Collation : Collation[i] = name

\* a.localeCompare(b): negative, zero or positive.
localeCompare(a, b) ==
    IF a = b THEN 0
    ELSE IF CollationRank(a) < CollationRank(b) THEN -1 ELSE 1

\* Faulty variant of compareCourses: the name does not break a tie.
compareCourses_SemesterOnly(a, b) == compareSemesters(a.semester, b.semester)

\* The comparator renderSection passes to sort.
compareCourses(a, b) ==
    LET semDiff == compareSemesters(a.semester, b.semester)
    IN  IF semDiff # 0 THEN semDiff ELSE localeCompare(a.name, b.name)

\* One step of a stable sort: course goes behind every element of the sorted
\* sequence that does not compare greater than it.
insertSorted(sorted, course) ==
    LET after == {i \in DOMAIN sorted : compareCourses(sorted[i], course) > 0}
        k == IF after = {} THEN Len(sorted) + 1
             ELSE CHOOSE i \in after : \A j \in after : i <= j
    IN  SubSeq(sorted, 1, k - 1) \o <<course>> \o SubSeq(sorted, k, Len(sorted))

\* Array.prototype.sort with the comparator above; the sort is stable.
RECURSIVE sort(_)
sort(cs) ==
    IF cs = <<>> THEN <<>>
    ELSE insertSorted(sort(SubSeq(cs, 1, Len(cs) - 1)), cs[Len(cs)])

\* The keys of the object literal groupedCourses, and the names every object
\* inherits from Object.prototype: groupedCourses[name] is an array for the
\* first, a function or an object (truthy, without push) for the second and
\* undefined for any other string.
SectionKeys == CourseCategory

ObjectPrototypeKeys ==
    {"constructor", "hasOwnProperty", "isPrototypeOf", "propertyIsEnumerable",
     "toLocaleString", "toString", "valueOf", "__proto__", "__defineGetter__",
     "__defineSetter__", "__lookupGetter__", "__lookupSetter__"}

\* The array the forEach callback pushes a course of that category to.
sectionOf(category) ==
    IF category \in SectionKeys THEN category ELSE "Other"

\* groupedCourses[course.category].push is not a function: a TypeError.
pushThrows(course) == course.category \in ObjectPrototypeKeys

groupedCourses(cs) ==
    [key \in SectionKeys |-> SelectSeq(cs, LAMBDA c : sectionOf(c.category) = key)]

\* The sections in the order CourseTable renders them.
SectionOrder ==
    <<"CommonRequired", "PhysicalEducation", "DeptRequired", "DesignatedElective",
      "GeneralElective", "GeneralEducation", "Other">>

\* The rows of one section.
renderSection(cs, category) == sort(groupedCourses(cs)[category])

\* What CourseTable renders: the rows of each section (none when the list is
\* empty: the placeholder), or nothing at all when grouping threw.
CourseTable(cs) ==
    IF \E i \in DOMAIN cs : pushThrows(cs[i])
    THEN [threw |-> TRUE, sections |-> <<>>]
    ELSE [threw |-> FALSE,
          sections |-> [i \in DOMAIN SectionOrder |-> renderSection(cs, SectionOrder[i])]]

(***************************************************************************)
(* Inputs.  A shape is what the user chooses in a form (category, grade,   *)
(* credits, the in-progress toggle); a stored shape is a course as the     *)
(* remote basket may hold it, which includes records written by older      *)
(* versions: no isCurrent field, a category or a grade outside the closed  *)
(* sets.  A universe names the shapes one specification draws from and the *)
(* longest course list it explores.                                        *)
(***************************************************************************)
Shape(category, grade, credits, isCurrent) ==
    [category |-> category, grade |-> grade, credits |-> credits,
     isCurrent |-> isCurrent]

LegacyShape(category, grade, credits) ==
    [category |-> category, grade |-> grade, credits |-> credits]

Shapes(categories, grades, credits, flags) ==
    {Shape(c, g, n, f) : c \in categories, g \in grades, n \in credits, f \in flags}

LegacyShapes(categories, grades, credits) ==
    {LegacyShape(c, g, n) : c \in categories, g \in grades, n \in credits}

\* A shape that also fills in the semester and the name.
TermShapes(semesters, names, categories, grades, credits, flags) ==
    {[semester |-> t, name |-> m, category |-> c, grade |-> g, credits |-> n,
      isCurrent |-> f] :
        t \in semesters, m \in names, c \in categories, g \in grades,
        n \in credits, f \in flags}

\* Credit accounting: every category, earned and in progress.
CreditUniverse ==
    [form   |-> Shapes(CourseCategory \ {"PhysicalEducation"}, {"A+"}, {3}, BOOLEAN)
                  \cup Shapes({"PhysicalEducation"}, {"A+"}, {4}, BOOLEAN),
     stored |-> Shapes({"Unknown"}, {"A+"}, {2}, BOOLEAN)
                  \cup LegacyShapes({"Unknown", "DeptRequired"}, {"A+"}, {2}),
     max    |-> MaxCourses]

\* GPA: letter grades, Pass, an unmapped grade, zero credits, physical education.
GpaUniverse ==
    [form   |-> Shapes({"DeptRequired"}, {"A+", "B"}, {1, 3}, BOOLEAN)
                  \cup Shapes({"DeptRequired"}, {"Pass"}, {3}, BOOLEAN)
                  \cup Shapes({"DeptRequired"}, {"A+"}, {0}, {FALSE})
                  \cup Shapes({"PhysicalEducation"}, {"A+"}, {3}, BOOLEAN),
     stored |-> Shapes({"DeptRequired"}, {"X"}, {3}, {TRUE})
                  \cup LegacyShapes({"DeptRequired"}, {"X", "B"}, {3}),
     max    |-> MaxCourses]

\* Order of accumulation: three inexact grade points.
OrderUniverse ==
    [form   |-> Shapes({"DeptRequired"}, {"A+", "A", "A-"}, {1, 2}, {FALSE}),
     stored |-> Shapes({"DeptRequired"}, {"A+"}, {1}, {FALSE}),
     max    |-> MaxOrderCourses]

\* Semester labels.
Sem109 == <<"1", "0", "9">>
Sem111_1 == <<"1", "1", "1", "-", "1">>
Sem111_2 == <<"1", "1", "1", "-", "2">>
Sem112_1 == <<"1", "1", "2", "-", "1">>
Sem111Slash1 == <<"1", "1", "1", "/", "1">>
Sem111DashDash2 == <<"1", "1", "1", "-", "-", "2">>
Sem111_1_5 == <<"1", "1", "1", "-", "1", "-", "5">>
SemNoDigits == <<"x">>

\* The course table: four semesters of one section, in any order.
TableUniverse ==
    [form   |-> TermShapes({Sem109, Sem111_1, Sem111_2, Sem112_1}, {"Accounting"},
                           {"DeptRequired"}, {"A+"}, {3}, {FALSE}),
     stored |-> TermShapes({Sem111_1}, {"Auditing"}, {"DeptRequired"}, {"A+"}, {3},
                           {FALSE}),
     max    |-> MaxTableCourses]

\* Semester labels and names: the same numbers behind different labels, one
\* number, three, none, an empty piece between two, and two names.
SemesterUniverse ==
    [form   |-> TermShapes({Sem109, Sem111_1, Sem111Slash1}, {"Accounting"},
                           {"DeptRequired"}, {"A+"}, {3}, {FALSE})
                  \cup TermShapes({Sem111_1}, {"Auditing"}, {"DeptRequired"}, {"A+"},
                                  {3}, {FALSE}),
     stored |-> TermShapes({SemNoDigits, Sem111DashDash2, Sem111_1_5}, {"Calculus"},
                           {"DeptRequired"}, {"A+"}, {3}, {FALSE}),
     max    |-> MaxOrderCourses]

\* Progress: credits around the targets 9 (CommonRequired) and 15
\* (GeneralEducation), earned and in progress.
ProgressUniverse ==
    [form   |-> Shapes({"CommonRequired"}, {"A+"}, {4, 5}, BOOLEAN)
                  \cup Shapes({"GeneralEducation"}, {"A+"}, {10}, BOOLEAN),
     stored |-> Shapes({"DeptRequired"}, {"A+"}, {3}, {FALSE}),
     max    |-> MaxCourses]

\* Listing: every category of the form, and stored categories outside the
\* seven: an ordinary string and the name of an inherited property.
ListingUniverse ==
    [form   |-> Shapes(CourseCategory, {"A+"}, {3}, {FALSE}),
     stored |-> Shapes({"Unknown", "constructor"}, {"A+"}, {3}, {FALSE}),
     max    |-> MaxCourses]

\* Saving: one course, earned or in progress, and a stored one.
SaveUniverse ==
    [form   |-> Shapes({"DeptRequired"}, {"A+"}, {3}, BOOLEAN),
     stored |-> Shapes({"DeptRequired"}, {"B"}, {3}, {FALSE}),
     max    |-> MaxSaveCourses]

\* The bar of the total: a stored course that stands for the 130 credits of a
\* long list, and a few credits more, earned or in progress.
TotalBarUniverse ==
    [form   |-> Shapes({"DeptRequired"}, {"A+"}, {2, 6}, BOOLEAN)
                  \cup Shapes({"GeneralEducation"}, {"A+"}, {16}, BOOLEAN),
     stored |-> Shapes({"DeptRequired"}, {"A+"}, {130}, {FALSE}),
     max    |-> MaxCourses]

\* Editing: courses of the form and of the basket (one without isCurrent), and
\* what the user types into the row being edited.
EditUniverse ==
    [form   |-> Shapes({"DeptRequired"}, {"A+"}, {3}, BOOLEAN),
     stored |-> LegacyShapes({"DeptRequired"}, {"B"}, {2}),
     edits  |-> {<<"credits", 5>>, <<"isCurrent", TRUE>>, <<"grade", "Pass">>},
     max    |-> MaxCourses]

DefaultSemester == <<"1", "1", "3", "-", "2">>
CourseNames == {"", "Accounting"}

\* The course of a shape; the semester keeps the form's default and the name
\* is the given one unless the shape says otherwise.
ShapedCourse(id, name, sh) ==
    LET semester == IF "semester" \in DOMAIN sh THEN sh.semester ELSE DefaultSemester
        named == IF "name" \in DOMAIN sh THEN sh.name ELSE name
    IN  IF "isCurrent" \in DOMAIN sh
        THEN Course(id, semester, named, sh.credits, sh.category, sh.grade, sh.isCurrent)
        ELSE LegacyCourse(id, semester, named, sh.credits, sh.category, sh.grade)

Ids(cs) == {cs[i].id : i \in DOMAIN cs}

\* Faulty variant of generateId: the same identifier every time.
generateId_First(cs) == 1

\* crypto.randomUUID(): an identifier no course of the list has.  Identifiers are
\* only ever compared for equality, so the least unused number stands for any
\* fresh one.
generateId(cs) == CHOOSE i \in 1..(Len(cs) + 1) : i \notin Ids(cs) /\ \A j \in 1..(i - 1) : j \in Ids(cs)

\* Sequences over S of length 0..n.
SeqUpTo(S, n) == UNION {[1..k -> S] : k \in 0..n}

\* The courses of a sequence of shapes, appended to cs with fresh identifiers.
RECURSIVE WithFreshIds(_, _)
WithFreshIds(cs, shs) ==
    IF shs = <<>> THEN <<>>
    ELSE LET c == ShapedCourse(generateId(cs), "Accounting", Head(shs))
         IN  <<c>> \o WithFreshIds(Append(cs, c), Tail(shs))

\* What the basket may hold: course lists saved earlier.
StoredLists(U) == {WithFreshIds(<<>>, shs) : shs \in SeqUpTo(U.stored, U.max)}

(***************************************************************************)
(* App: the state updaters passed to setCourses.                           *)
(***************************************************************************)
appendCourse(prev, course) == Append(prev, course)

appendCourses(prev, newCourses) == prev \o newCourses

replaceCourse(prev, updatedCourse) ==
    [i \in DOMAIN prev |-> IF prev[i].id = updatedCourse.id THEN updatedCourse ELSE prev[i]]

removeCourse(prev, id) == SelectSeq(prev, LAMBDA c : c.id # id)

\* React renders SummaryCard again after every state change of App.
Render == totals' = SummaryTotals(courses')

(***************************************************************************)
(* The null values of the state of CourseTable and TranscriptImportModal.  *)
(***************************************************************************)
\* null where a string is expected (error, selectedFile).
null == "null"

\* editingId is null: no row is being edited.
NoEditingId == 0

\* editValues is null.
NoEditValues == [editing |-> FALSE]

\* handleAnalyze is not running.
NoAnalysis == [state |-> "idle"]

\* handleClose up to onClose(): back to the input step, nothing entered, no
\* candidates, no error.
ResetModal ==
    /\ step' = "input"
    /\ rawText' = ""
    /\ selectedFile' = null
    /\ parsedCourses' = <<>>
    /\ error' = null

(***************************************************************************)
(* App: the save effect.  A pending timeout is its handle and the course   *)
(* list its callback closed over.                                          *)
(***************************************************************************)
\* The basket before a save of the session reached it: whatever it held when
\* the session started.
NoData == [unwritten |-> TRUE]

\* No cleanup to run: the effect has not run yet or returned early.
NoHandler == 0

\* Faulty variant of clearTimeout: the cleanup cancels nothing.
clearTimeout_Ignored(pending, id) == pending

\* clearTimeout(id): nothing happens when that timeout ran already.
clearTimeout(pending, id) == {t \in pending : t.id # id}

\* setTimeout and fetch hand out handles; they are only compared for equality,
\* so the least unused number stands for any fresh one.
FreshId(used) == CHOOSE i \in 1..(Cardinality(used) + 1) : i \notin used /\ \A j \in 1..(i - 1) : j \in used

\* Faulty variant of effectDeps: courses is missing from the dependencies.
effectDeps_InitializedOnly(coursesSet, initializedSet) == initializedSet

\* The dependencies [courses, isInitialized]: the effect runs again after a
\* render in which setCourses was called (every updater returns a new array)
\* or isInitialized changed.
effectDeps(coursesSet, initializedSet) == coursesSet \/ initializedSet

\* Faulty variant of SaveEffect: no early return while isInitialized is false.
SaveEffect_NoEarlyReturn(coursesSet, initializedSet) ==
    IF ~effectDeps(coursesSet, initializedSet)
    THEN UNCHANGED <<syncStatus, timers, handler>>
    ELSE LET cleared == IF handler = NoHandler THEN timers
                        ELSE clearTimeout(timers, handler)
             id == FreshId({t.id : t \in cleared})
         IN  /\ syncStatus' = "saving"
             /\ timers' = cleared \cup {[id |-> id, courses |-> courses']}
             /\ handler' = id

\* The save effect after a render: the cleanup of its previous run, then its
\* body up to setTimeout.
SaveEffect(coursesSet, initializedSet) ==
    IF ~effectDeps(coursesSet, initializedSet)
    THEN UNCHANGED <<syncStatus, timers, handler>>
    ELSE LET cleared == IF handler = NoHandler THEN timers
                        ELSE clearTimeout(timers, handler)
             id == FreshId({t.id : t \in cleared})
         IN  IF ~isInitialized'
             THEN /\ timers' = cleared
                  /\ handler' = NoHandler
                  /\ UNCHANGED syncStatus
             ELSE /\ syncStatus' = "saving"
                  /\ timers' = cleared \cup {[id |-> id, courses |-> courses']}
                  /\ handler' = id

\* Faulty variant of statusOfResponse: response.ok is not looked at.
statusOfResponse_IgnoresOk(ok) == "synced"

\* The end of the timeout callback: synced, or the catch block: error.
statusOfResponse(ok) == IF ok THEN "synced" ELSE "error"

(***************************************************************************)
(* TranscriptImportModal: the analysis of a transcript.  The extraction    *)
(* service answers with a text; an item of the array it holds has a        *)
(* semester, a name, credits and a raw grade.  Raw grades are typed values *)
(* (the service is free to send a number or to leave the grade out);       *)
(* strings are sequences of characters.                                    *)
(***************************************************************************)
Str(chars) == [type |-> "string", chars |-> chars]
Undefined == [type |-> "undefined"]
Num(n) == [type |-> "number", value |-> n]

\* !raw
falsy(raw) ==
    \/ raw.type = "undefined"
    \/ raw.type = "string" /\ raw.chars = <<>>
    \/ raw.type = "number" /\ raw.value = 0

\* String.prototype.trim
RECURSIVE trimStart(_)
trimStart(s) == IF s # <<>> /\ Head(s) = " " THEN trimStart(Tail(s)) ELSE s

RECURSIVE trimEnd(_)
trimEnd(s) ==
    IF s # <<>> /\ s[Len(s)] = " " THEN trimEnd(SubSeq(s, 1, Len(s) - 1)) ELSE s

trim(s) == trimEnd(trimStart(s))

\* String.prototype.toUpperCase, on the letters the model uses.
UpperCase ==
    [ch \in {"a", "b", "c", "f", "p", "s", "x"} |->
        CASE ch = "a" -> "A" [] ch = "b" -> "B" [] ch = "c" -> "C" [] ch = "f" -> "F"
          [] ch = "p" -> "P" [] ch = "s" -> "S" [] ch = "x" -> "X"]

toUpperCase(s) == [i \in DOMAIN s |-> IF s[i] \in DOMAIN UpperCase THEN UpperCase[s[i]] ELSE s[i]]

\* The array valid of mapGrade: the grades as they are spelled.
valid ==
    [g \in {"A+", "A", "A-", "B+", "B", "B-", "C+", "C", "C-", "F", "Pass"} |->
        CASE g = "A+" -> <<"A", "+">> [] g = "A" -> <<"A">> [] g = "A-" -> <<"A", "-">>
          [] g = "B+" -> <<"B", "+">> [] g = "B" -> <<"B">> [] g = "B-" -> <<"B", "-">>
          [] g = "C+" -> <<"C", "+">> [] g = "C" -> <<"C">> [] g = "C-" -> <<"C", "-">>
          [] g = "F" -> <<"F">> [] g = "Pass" -> <<"P", "a", "s", "s">>]

\* raw.trim() throws a TypeError: raw is truthy and not a string.
mapGradeThrows(raw) == ~falsy(raw) /\ raw.type # "string"

\* Faulty variant of mapGrade: a grade that is not in valid is kept as it is.
mapGrade_NoFallback(raw) ==
    IF falsy(raw) THEN "Pass"
    ELSE LET g == toUpperCase(trim(raw.chars))
         IN  IF \E v \in DOMAIN valid : valid[v] = g
             THEN CHOOSE v \in DOMAIN valid : valid[v] = g
             ELSE "Unmapped"

\* mapGrade, for a raw grade it does not throw on.
mapGrade(raw) ==
    IF falsy(raw) THEN "Pass"
    ELSE LET g == toUpperCase(trim(raw.chars))
         IN  IF \E v \in DOMAIN valid : valid[v] = g
             THEN CHOOSE v \in DOMAIN valid : valid[v] = g
             ELSE "Pass"

\* An item of the answer.
Item(semester, name, credits, grade) ==
    [semester |-> semester, name |-> name, credits |-> credits, grade |-> grade]

\* The answers of the extraction service: the call is rejected, the text is not
\* JSON, the JSON is not an array, or it is an array of items (maybe empty).
Rejected == [kind |-> "rejected"]
InvalidJSON == [kind |-> "invalidJSON"]
NotArray == [kind |-> "notArray"]
Items(items) == [kind |-> "array", items |-> items]

\* Faulty variant of analysisFails: an empty array is accepted.
analysisFails_EmptyAccepted(answer) ==
    \/ answer.kind # "array"
    \/ \E i \in DOMAIN answer.items : mapGradeThrows(answer.items[i].grade)

\* handleAnalyze ends in its catch block: generateContent rejects, JSON.parse
\* throws, "No courses found" is thrown, or mapGrade throws.
analysisFails(answer) ==
    \/ answer.kind # "array"
    \/ answer.items = <<>>
    \/ \E i \in DOMAIN answer.items : mapGradeThrows(answer.items[i].grade)

\* Number(x) || 0
numberOrZero(x) == IF x = NaN THEN 0 ELSE x

\* The candidate of an item: data.map((item, idx) => ...).
ParsedCourse(item, idx) ==
    [tempId |-> idx,
     semester |-> IF item.semester = <<>> THEN Sem111_1 ELSE item.semester,
     name |-> IF item.name = "" THEN "Unknown Course" ELSE item.name,
     credits |-> numberOrZero(item.credits),
     grade |-> mapGrade(item.grade),
     category |-> "GeneralElective",
     isCurrent |-> FALSE]

\* const mapped = data.map(...)
mappedCourses(items) == [idx \in DOMAIN items |-> ParsedCourse(items[idx], idx)]

\* Faulty variant of validRow: every row is imported.
validRow_Any(c) == TRUE

\* The filter of handleConfirmImport: c.name && !isNaN(c.credits)
validRow(c) == c.name # "" /\ c.credits # NaN

\* finalCourses: the rows that pass the filter, each with a generated id.
RECURSIVE finalCourses(_, _)
finalCourses(cs, rows) ==
    IF rows = <<>> THEN <<>>
    ELSE IF ~validRow(Head(rows)) THEN finalCourses(cs, Tail(rows))
    ELSE LET c == Course(generateId(cs), Head(rows).semester, Head(rows).name,
                         Head(rows).credits, Head(rows).category, Head(rows).grade,
                         Head(rows).isCurrent)
         IN  <<c>> \o finalCourses(Append(cs, c), Tail(rows))

\* Import: an item that maps as it is, one whose fields are all missing or
\* unusable, and one whose grade is a number; what the user changes in review.
ImportUniverse ==
    [form   |-> Shapes({"DeptRequired"}, {"A+"}, {3}, {FALSE}),
     stored |-> Shapes({"DeptRequired"}, {"B"}, {3}, {FALSE}),
     items  |-> {Item(Sem112_1, "Accounting", 3, Str(<<"A", "+">>)),
                 Item(<<>>, "", NaN, Undefined),
                 Item(Sem112_1, "Auditing", 2, Num(85))},
     rows   |-> MaxRows,
     reviewEdits |-> {<<"name", "">>, <<"category", "DeptRequired">>},
     max    |-> MaxCourses]

\* Raw grades: the letter grades in several spellings, Pass, words and marks
\* that are no grade, nothing at all, a number.
RawGrades ==
    {Str(<<"A", "+">>), Str(<<" ", "a", "-", " ">>), Str(<<"b">>),
     Str(<<"P", "a", "s", "s">>), Str(<<"P">>), Str(<<"A", " ", "+">>),
     Str(<<"X">>), Str(<<" ">>), Str(<<>>), Undefined, Num(85)}

GradeUniverse ==
    [form   |-> {},
     stored |-> {},
     items  |-> {Item(Sem112_1, "Accounting", 3, g) : g \in RawGrades},
     rows   |-> MaxGradeRows,
     reviewEdits |-> {<<"grade", "C">>, <<"isCurrent", TRUE>>},
     max    |-> MaxCourses]

(***************************************************************************)
(* Actions.                                                                *)
(***************************************************************************)
Init ==
    /\ courses = <<>>
    /\ requirements = ACCOUNTING_111_REQUIREMENTS
    /\ isLoading = TRUE
    /\ isInitialized = FALSE
    /\ isImportModalOpen = FALSE
    /\ totals = initialAcc
    /\ syncStatus = "idle"
    /\ timers = {}
    /\ handler = NoHandler
    /\ requests = {}
    /\ responses = {}
    /\ basket = NoData
    /\ fetchData = "notStarted"
    /\ editingId = NoEditingId
    /\ editValues = NoEditValues
    /\ step = "input"
    /\ rawText = ""
    /\ selectedFile = null
    /\ isAnalyzing = FALSE
    /\ parsedCourses = <<>>
    /\ error = null
    /\ analysis = NoAnalysis

\* The effects of the first render: fetchData() is called and waits for the
\* basket; the save effect runs for the first time.
mount ==
    /\ fetchData = "notStarted"
    /\ fetchData' = "awaiting"
    /\ UNCHANGED <<appVars, netVars, tableVars, modalVars>>
    /\ SaveEffect(TRUE, TRUE)

\* fetchData: the basket answers with a courses array.
fetchDataLoaded(U) ==
    /\ fetchData = "awaiting"
    /\ fetchData' = "finished"
    /\ isLoading
    /\ \E data \in StoredLists(U) : courses' = data
    /\ isLoading' = FALSE
    /\ isInitialized' = TRUE
    /\ UNCHANGED <<requirements, isImportModalOpen, netVars, tableVars, modalVars>>
    /\ Render
    /\ SaveEffect(TRUE, TRUE)

\* fetchData: a response that is not ok or has no courses array, or a failed fetch.
fetchDataNothing ==
    /\ fetchData = "awaiting"
    /\ fetchData' = "finished"
    /\ isLoading
    /\ isLoading' = FALSE
    /\ isInitialized' = TRUE
    /\ UNCHANGED <<courses, requirements, isImportModalOpen, netVars, tableVars, modalVars>>
    /\ Render
    /\ SaveEffect(FALSE, TRUE)

\* CourseForm.handleSubmit and App.handleAddCourse.
handleAddCourse(U) ==
    /\ ~isLoading
    /\ Len(courses) < U.max
    /\ UNCHANGED <<requirements, isLoading, isInitialized, isImportModalOpen, netVars,
                   fetchData, tableVars, modalVars>>
    /\ \E name \in CourseNames, sh \in U.form :
          IF name = "" THEN UNCHANGED <<courses, totals>> /\ SaveEffect(FALSE, FALSE)
          ELSE /\ courses' = appendCourse(courses, ShapedCourse(generateId(courses), name, sh))
               /\ Render
               /\ SaveEffect(TRUE, FALSE)

\* TranscriptImportModal.handleConfirmImport and App.handleBatchAddCourses,
\* followed by handleClose.
handleBatchAddCourses(U) ==
    /\ ~isLoading
    /\ isImportModalOpen
    /\ \E shs \in SeqUpTo(U.form, U.max - Len(courses)) :
          courses' = appendCourses(courses, WithFreshIds(courses, shs))
    /\ isImportModalOpen' = FALSE
    /\ ResetModal
    /\ UNCHANGED <<requirements, isLoading, isInitialized, netVars, fetchData, tableVars,
                   isAnalyzing, analysis>>
    /\ Render
    /\ SaveEffect(TRUE, FALSE)

\* CourseTable.startEdit, handleEditChange, saveEdit and App.handleUpdateCourse.
handleUpdateCourse(U) ==
    /\ ~isLoading
    /\ \E i \in DOMAIN courses, sh \in U.form :
          courses' = replaceCourse(courses,
                        ShapedCourse(courses[i].id, courses[i].name, sh))
    /\ editingId' = NoEditingId
    /\ editValues' = NoEditValues
    /\ UNCHANGED <<requirements, isLoading, isInitialized, isImportModalOpen, netVars,
                   fetchData, modalVars>>
    /\ Render
    /\ SaveEffect(TRUE, FALSE)

\* App.handleDeleteCourse: window.confirm answers yes or no.
handleDeleteCourse ==
    /\ ~isLoading
    /\ UNCHANGED <<requirements, isLoading, isInitialized, isImportModalOpen, netVars,
                   fetchData, tableVars, modalVars>>
    /\ \E i \in DOMAIN courses, confirmed \in BOOLEAN :
          /\ courses[i].id # editingId
          /\ IF confirmed
             THEN /\ courses' = removeCourse(courses, courses[i].id)
                  /\ Render
                  /\ SaveEffect(TRUE, FALSE)
             ELSE UNCHANGED <<courses, totals>> /\ SaveEffect(FALSE, FALSE)

\* The import button: setIsImportModalOpen(true).
openImportModal ==
    /\ ~isLoading
    /\ ~isImportModalOpen
    /\ isImportModalOpen' = TRUE
    /\ UNCHANGED <<courses, requirements, isLoading, isInitialized, netVars, fetchData,
                   tableVars, modalVars>>
    /\ Render
    /\ SaveEffect(FALSE, FALSE)

\* TranscriptImportModal.handleClose: the state of the modal is reset, except
\* isAnalyzing, and onClose() is called.
handleClose ==
    /\ ~isLoading
    /\ isImportModalOpen
    /\ isImportModalOpen' = FALSE
    /\ ResetModal
    /\ UNCHANGED <<courses, requirements, isLoading, isInitialized, netVars, fetchData,
                   tableVars, isAnalyzing, analysis>>
    /\ Render
    /\ SaveEffect(FALSE, FALSE)

\* The timeout callback up to fetch: the POST request with the body
\* JSON.stringify({ courses }) of the list the callback closed over.
timerFires ==
    /\ Cardinality(requests) + Cardinality(responses) < MaxInFlight
    /\ \E t \in timers :
          /\ timers' = timers \ {t}
          /\ requests' = requests \cup
                {[id |-> FreshId({r.id : r \in requests \cup responses}),
                  body |-> [courses |-> t.courses]]}
    /\ UNCHANGED <<appVars, syncStatus, handler, responses, basket, fetchData,
                   tableVars, modalVars>>

\* The basket replaces its content by the body and answers with an ok status.
postAccepted ==
    /\ \E r \in requests :
          /\ requests' = requests \ {r}
          /\ basket' = r.body
          /\ responses' = responses \cup {[id |-> r.id, ok |-> TRUE]}
    /\ UNCHANGED <<appVars, syncStatus, timers, handler, fetchData, tableVars, modalVars>>

\* The basket answers with a status that is not ok and stores nothing.
postRejected ==
    /\ \E r \in requests :
          /\ requests' = requests \ {r}
          /\ responses' = responses \cup {[id |-> r.id, ok |-> FALSE]}
    /\ UNCHANGED <<appVars, syncStatus, timers, handler, basket, fetchData, tableVars,
                   modalVars>>

\* fetch rejects (a network error): the request was lost, or it was stored
\* and the answer was lost.
postFails ==
    /\ \E r \in requests, stored \in BOOLEAN :
          /\ requests' = requests \ {r}
          /\ basket' = IF stored THEN r.body ELSE basket
          /\ responses' = responses \cup {[id |-> r.id, ok |-> FALSE]}
    /\ UNCHANGED <<appVars, syncStatus, timers, handler, fetchData, tableVars, modalVars>>

\* The timeout callback after await fetch: setSyncStatus.
saveSettled ==
    /\ \E r \in responses :
          /\ responses' = responses \ {r}
          /\ syncStatus' = statusOfResponse(r.ok)
    /\ UNCHANGED <<courses, requirements, isLoading, isInitialized, isImportModalOpen,
                   timers, handler, requests, basket, fetchData, tableVars, modalVars>>
    /\ Render

\* Faulty variant of EditChanges: the row also offers the id for editing.
EditChanges_WithId(U) == U.edits \cup {<<"id", i>> : i \in 1..U.max}

\* The fields the inputs of the row being edited pass to handleEditChange
\* (semester, name, isCurrent, credits, grade, category), with their values.
EditChanges(U) == U.edits

\* CourseTable.startEdit, on a row that is not being edited.
startEdit ==
    /\ ~isLoading
    /\ \E i \in DOMAIN courses :
          /\ courses[i].id # editingId
          /\ editingId' = courses[i].id
          /\ editValues' = courses[i]
    /\ UNCHANGED <<appVars, syncStatus, timers, handler, netVars, fetchData, modalVars>>

\* CourseTable.cancelEdit, on the row being edited.
cancelEdit ==
    /\ ~isLoading
    /\ editingId \in Ids(courses)
    /\ editValues # NoEditValues
    /\ editingId' = NoEditingId
    /\ editValues' = NoEditValues
    /\ UNCHANGED <<appVars, syncStatus, timers, handler, netVars, fetchData, modalVars>>

\* CourseTable.handleEditChange: { ...editValues, [field]: value }.
handleEditChange(U) ==
    /\ ~isLoading
    /\ editingId \in Ids(courses)
    /\ editValues # NoEditValues
    /\ \E change \in EditChanges(U) :
          editValues' = [f \in DOMAIN editValues \cup {change[1]} |->
                            IF f = change[1] THEN change[2] ELSE editValues[f]]
    /\ UNCHANGED <<appVars, syncStatus, timers, handler, netVars, fetchData, modalVars,
                   editingId>>

\* CourseTable.saveEdit: onUpdate(editValues), that is App.handleUpdateCourse,
\* then cancelEdit.
saveEdit ==
    /\ ~isLoading
    /\ editingId \in Ids(courses)
    /\ editValues # NoEditValues
    /\ courses' = replaceCourse(courses, editValues)
    /\ editingId' = NoEditingId
    /\ editValues' = NoEditValues
    /\ UNCHANGED <<requirements, isLoading, isInitialized, isImportModalOpen, netVars,
                   fetchData, modalVars>>
    /\ Render
    /\ SaveEffect(TRUE, FALSE)

\* The textarea of the input step: setRawText.
setRawText ==
    /\ isImportModalOpen
    /\ step = "input"
    /\ selectedFile = null
    /\ \E text \in {"", "transcript"} : rawText' = text /\ rawText' # rawText
    /\ UNCHANGED <<appVars, syncStatus, timers, handler, netVars, fetchData, tableVars,
                   step, selectedFile, isAnalyzing, parsedCourses, error, analysis>>

\* TranscriptImportModal.handleFileSelect
handleFileSelect ==
    /\ isImportModalOpen
    /\ step = "input"
    /\ selectedFile' = "transcript.pdf"
    /\ rawText' = ""
    /\ UNCHANGED <<appVars, syncStatus, timers, handler, netVars, fetchData, tableVars,
                   step, isAnalyzing, parsedCourses, error, analysis>>

\* TranscriptImportModal.clearFile
clearFile ==
    /\ isImportModalOpen
    /\ step = "input"
    /\ selectedFile # null
    /\ selectedFile' = null
    /\ UNCHANGED <<appVars, syncStatus, timers, handler, netVars, fetchData, tableVars,
                   step, rawText, isAnalyzing, parsedCourses, error, analysis>>

\* TranscriptImportModal.handleAnalyze up to await ai.models.generateContent.
handleAnalyze ==
    /\ isImportModalOpen
    /\ step = "input"
    /\ ~isAnalyzing
    /\ rawText # "" \/ selectedFile # null
    /\ isAnalyzing' = TRUE
    /\ error' = null
    /\ analysis' = [state |-> "pending"]
    /\ UNCHANGED <<appVars, syncStatus, timers, handler, netVars, fetchData, tableVars,
                   step, rawText, selectedFile, parsedCourses>>

\* The extraction service answers or the call fails.
generateContent(U) ==
    /\ analysis = [state |-> "pending"]
    /\ \E answer \in {Rejected, InvalidJSON, NotArray}
                        \cup {Items(items) : items \in SeqUpTo(U.items, U.rows)} :
          analysis' = [state |-> "answered", answer |-> answer]
    /\ UNCHANGED <<appVars, syncStatus, timers, handler, netVars, fetchData, tableVars,
                   step, rawText, selectedFile, isAnalyzing, parsedCourses, error>>

\* TranscriptImportModal.handleAnalyze after the await: the candidates and the
\* review step, or the catch block; then the finally block.  The modal may
\* have been closed meanwhile: the component stays mounted.
handleAnalyzeResumes ==
    /\ analysis.state = "answered"
    /\ IF analysisFails(analysis.answer)
       THEN /\ error' = "Failed to parse transcript"
            /\ UNCHANGED <<parsedCourses, step>>
       ELSE /\ parsedCourses' = mappedCourses(analysis.answer.items)
            /\ step' = "review"
            /\ UNCHANGED error
    /\ isAnalyzing' = FALSE
    /\ analysis' = NoAnalysis
    /\ UNCHANGED <<appVars, syncStatus, timers, handler, netVars, fetchData, tableVars,
                   rawText, selectedFile>>

\* TranscriptImportModal.handleFieldChange, from an input of a row in review.
handleFieldChange(U) ==
    /\ isImportModalOpen
    /\ step = "review"
    /\ \E i \in DOMAIN parsedCourses, change \in U.reviewEdits :
          parsedCourses' =
             [k \in DOMAIN parsedCourses |->
                IF parsedCourses[k].tempId = parsedCourses[i].tempId
                THEN [parsedCourses[k] EXCEPT ![change[1]] = change[2]]
                ELSE parsedCourses[k]]
    /\ UNCHANGED <<appVars, syncStatus, timers, handler, netVars, fetchData, tableVars,
                   step, rawText, selectedFile, isAnalyzing, error, analysis>>

\* TranscriptImportModal.handleRemoveRow
handleRemoveRow ==
    /\ isImportModalOpen
    /\ step = "review"
    /\ \E i \in DOMAIN parsedCourses :
          parsedCourses' =
             SelectSeq(parsedCourses, LAMBDA c : c.tempId # parsedCourses[i].tempId)
    /\ UNCHANGED <<appVars, syncStatus, timers, handler, netVars, fetchData, tableVars,
                   step, rawText, selectedFile, isAnalyzing, error, analysis>>

\* The button back of the review step: setStep('input').
backToInput ==
    /\ isImportModalOpen
    /\ step = "review"
    /\ step' = "input"
    /\ UNCHANGED <<appVars, syncStatus, timers, handler, netVars, fetchData, tableVars,
                   rawText, selectedFile, isAnalyzing, parsedCourses, error, analysis>>

\* TranscriptImportModal.handleConfirmImport: onImport(finalCourses), that is
\* App.handleBatchAddCourses, then handleClose.
handleConfirmImport(U) ==
    /\ isImportModalOpen
    /\ step = "review"
    /\ Len(courses) + Len(parsedCourses) <= U.max
    /\ courses' = appendCourses(courses, finalCourses(courses, parsedCourses))
    /\ isImportModalOpen' = FALSE
    /\ ResetModal
    /\ UNCHANGED <<requirements, isLoading, isInitialized, netVars, fetchData, tableVars,
                   isAnalyzing, analysis>>
    /\ Render
    /\ SaveEffect(TRUE, FALSE)

NextOf(U) ==
    \/ mount
    \/ fetchDataLoaded(U)
    \/ fetchDataNothing
    \/ handleAddCourse(U)
    \/ handleBatchAddCourses(U)
    \/ handleUpdateCourse(U)
    \/ handleDeleteCourse
    \/ openImportModal
    \/ handleClose

Next == NextOf(CreditUniverse)
Spec == Init /\ [][Next]_vars

SpecGPA == Init /\ [][NextOf(GpaUniverse)]_vars

SpecOrder == Init /\ [][NextOf(OrderUniverse)]_vars

NextSave ==
    \/ NextOf(SaveUniverse)
    \/ timerFires
    \/ postAccepted
    \/ postRejected
    \/ postFails
    \/ saveSettled
SpecSave == Init /\ [][NextSave]_vars

\* The same with a network and a basket that never fail.
NextSupersede ==
    \/ NextOf(SaveUniverse)
    \/ timerFires
    \/ postAccepted
    \/ saveSettled
SpecSupersede == Init /\ [][NextSupersede]_vars

SpecProgress == Init /\ [][NextOf(ProgressUniverse)]_vars

SpecListing == Init /\ [][NextOf(ListingUniverse)]_vars

SpecTable == Init /\ [][NextOf(TableUniverse)]_vars

SpecSemester == Init /\ [][NextOf(SemesterUniverse)]_vars

SpecTotalBar == Init /\ [][NextOf(TotalBarUniverse)]_vars

\* The table with its editing row: every edit goes through startEdit,
\* handleEditChange and saveEdit or cancelEdit.
NextEdit ==
    \/ mount
    \/ fetchDataLoaded(EditUniverse)
    \/ fetchDataNothing
    \/ handleAddCourse(EditUniverse)
    \/ handleDeleteCourse
    \/ startEdit
    \/ handleEditChange(EditUniverse)
    \/ cancelEdit
    \/ saveEdit
SpecEdit == Init /\ [][NextEdit]_vars

\* The steps of TranscriptImportModal.
ModalOf(U) ==
    \/ openImportModal
    \/ setRawText
    \/ handleFileSelect
    \/ clearFile
    \/ handleAnalyze
    \/ generateContent(U)
    \/ handleAnalyzeResumes
    \/ handleFieldChange(U)
    \/ handleRemoveRow
    \/ backToInput
    \/ handleClose

\* The import: the modal from the analysis to the confirmed import.
NextImport ==
    \/ mount
    \/ fetchDataLoaded(ImportUniverse)
    \/ fetchDataNothing
    \/ ModalOf(ImportUniverse)
    \/ handleConfirmImport(ImportUniverse)
SpecImport == Init /\ [][NextImport]_vars

\* The same with one candidate and many raw grades.
NextGrades ==
    \/ mount
    \/ fetchDataLoaded(GradeUniverse)
    \/ fetchDataNothing
    \/ ModalOf(GradeUniverse)
    \/ handleConfirmImport(GradeUniverse)
SpecGrades == Init /\ [][NextGrades]_vars

\* A load that brings no data, and a user who changes nothing: the modal is
\* used, nothing is imported, the saves take their course.
NextFailedLoad ==
    \/ mount
    \/ fetchDataNothing
    \/ ModalOf(ImportUniverse)
    \/ timerFires
    \/ postAccepted
    \/ postRejected
    \/ postFails
    \/ saveSettled
SpecFailedLoad == Init /\ [][NextFailedLoad]_vars

(***************************************************************************)
(* Vocabulary of the properties: sums and means over the course list,      *)
(* computed over the integers, independently of the reducer.               *)
(***************************************************************************)
CreditBearing ==
    {"CommonRequired", "DeptRequired", "DesignatedElective", "GeneralElective",
     "GeneralEducation"}

CategoryOfKey ==
    [k \in BucketKeys |->
        CASE k = "commonRequired"     -> "CommonRequired"
          [] k = "deptRequired"       -> "DeptRequired"
          [] k = "designatedElective" -> "DesignatedElective"
          [] k = "generalElective"    -> "GeneralElective"
          [] k = "generalEducation"   -> "GeneralEducation"]

IsPE(c) == c.category = "PhysicalEducation"

\* isCurrent is true / is false or absent
MarkedCurrent(c) == "isCurrent" \in DOMAIN c /\ c.isCurrent = TRUE
NotMarkedCurrent(c) == "isCurrent" \notin DOMAIN c \/ c.isCurrent = FALSE

\* Other, or a string outside the seven known categories
FoldedCategory(c) == c.category = "Other" \/ c.category \notin CourseCategory

MappedTo(c, k) ==
    /\ ~IsPE(c)
    /\ \/ c.category = CategoryOfKey[k]
       \/ k = "generalElective" /\ c.category \notin CreditBearing

RECURSIVE SumCredits(_, _)
SumCredits(cs, I) ==
    IF I = {} THEN 0
    ELSE LET i == CHOOSE j \in I : TRUE
         IN  cs[i].credits + SumCredits(cs, I \ {i})

RECURSIVE SumTenths(_, _)
SumTenths(cs, I) ==
    IF I = {} THEN 0
    ELSE LET i == CHOOSE j \in I : TRUE
         IN  GRADE_POINTS[cs[i].grade] * cs[i].credits + SumTenths(cs, I \ {i})

SumEarned(acc) ==
    acc.commonRequired.earned + acc.deptRequired.earned + acc.designatedElective.earned
        + acc.generalElective.earned + acc.generalEducation.earned

SumProjected(acc) ==
    acc.commonRequired.projected + acc.deptRequired.projected
        + acc.designatedElective.projected + acc.generalElective.projected
        + acc.generalEducation.projected

\* The shapes of one step of the course list.
Added(c) == courses' = Append(courses, c)

RemovedAt(i) ==
    courses' = [j \in 1..(Len(courses) - 1) |-> IF j < i THEN courses[j] ELSE courses[j + 1]]

EditedAt(i) ==
    /\ Len(courses') = Len(courses)
    /\ courses'[i] # courses[i]
    /\ \A j \in DOMAIN courses : j # i => courses'[j] = courses[j]

\* A letter grade with a mapped point: A+ .. C-, F.
LetterGrade(g) == g \in Grade \ {"Pass"}

GpaEligible(c) == LetterGrade(c.grade) /\ c.credits > 0 /\ ~IsPE(c)

\* The hundredths a string d.dd (or dd.dd ...) denotes.
DigitOf(ch) == CHOOSE d \in 0..9 : DigitChar[d + 1] = ch

RECURSIVE DigitsValue(_)
DigitsValue(ds) ==
    IF ds = <<>> THEN 0
    ELSE 10 * DigitsValue(SubSeq(ds, 1, Len(ds) - 1)) + DigitOf(ds[Len(ds)])

IsFixed2(str) ==
    /\ Len(str) >= 4
    /\ str[Len(str) - 2] = "."
    /\ \A i \in DOMAIN str : i # Len(str) - 2 => str[i] \in {DigitChar[d] : d \in 1..10}

HundredthsOf(str) ==
    100 * DigitsValue(SubSeq(str, 1, Len(str) - 3))
        + DigitsValue(SubSeq(str, Len(str) - 1, Len(str)))

Abs(n) == IF n < 0 THEN -n ELSE n

\* str is the credit-weighted mean of the courses I of cs rounded to two
\* decimals: "0.00" without credits, else a d.dd within half a hundredth of
\* sum(point * credits) / sum(credits).
IsRoundedMean(str, cs, I) ==
    LET weight == SumCredits(cs, I)
        tenths == SumTenths(cs, I)
    IN  IF weight = 0 THEN str = <<"0", ".", "0", "0">>
        ELSE /\ IsFixed2(str)
             /\ Abs(2 * HundredthsOf(str) * weight - 20 * tenths) <= weight

(***************************************************************************)
(* C1.  In every reachable state the rendered totals satisfy: total.earned *)
(* is the sum of the five buckets' earned values, total.projected the sum  *)
(* of their projected values, and physical-education courses contribute    *)
(* nothing: both totals are the credit sums of the other courses.          *)
(***************************************************************************)
C1_TotalIsSumOfBuckets ==
    /\ totals.total.earned = SumEarned(totals)
    /\ totals.total.projected = SumProjected(totals)
    /\ totals.total.earned =
          SumCredits(courses, {i \in DOMAIN courses :
                                  ~IsPE(courses[i]) /\ NotMarkedCurrent(courses[i])})
    /\ totals.total.projected =
          SumCredits(courses, {i \in DOMAIN courses :
                                  ~IsPE(courses[i]) /\ MarkedCurrent(courses[i])})

C1_Witness ==
    /\ Len(courses) = 2
    /\ \E i \in DOMAIN courses : IsPE(courses[i]) /\ courses[i].credits = 4
    /\ \E k \in BucketKeys : totals[k].projected = 3
    /\ totals.total.projected = 3
    /\ totals.total.earned = 0

(***************************************************************************)
(* C2.  A step that adds, removes or edits a physical-education course     *)
(* (physical education before and after the edit), whatever its credits    *)
(* and isCurrent, leaves every bucket and the total unchanged.             *)
(***************************************************************************)
C2_PEStep ==
    \/ \E i \in DOMAIN courses' : i = Len(courses') /\ IsPE(courses'[i]) /\ Added(courses'[i])
    \/ \E i \in DOMAIN courses : IsPE(courses[i]) /\ RemovedAt(i)
    \/ \E i \in DOMAIN courses : IsPE(courses[i]) /\ EditedAt(i) /\ IsPE(courses'[i])

C2_PENeverCounts == [][C2_PEStep => totals' = totals]_vars

C2_Witness ==
    /\ Len(courses) = 2
    /\ \A i \in DOMAIN courses : IsPE(courses[i]) /\ courses[i].credits = 4
    /\ \E i \in DOMAIN courses : MarkedCurrent(courses[i])
    /\ \E i \in DOMAIN courses : NotMarkedCurrent(courses[i])
    /\ ~isLoading
    /\ totals = initialAcc

(***************************************************************************)
(* C3.  For each of the five buckets, earned is the sum of the credits of  *)
(* the courses mapped to the bucket whose isCurrent is false or absent and *)
(* projected the sum of those whose isCurrent is true; no course counts    *)
(* twice: earned + projected is the sum over all courses mapped to it.     *)
(***************************************************************************)
C3_BucketSums ==
    \A k \in BucketKeys :
        LET mapped == {i \in DOMAIN courses : MappedTo(courses[i], k)}
        IN  /\ totals[k].earned =
                  SumCredits(courses, {i \in mapped : NotMarkedCurrent(courses[i])})
            /\ totals[k].projected =
                  SumCredits(courses, {i \in mapped : MarkedCurrent(courses[i])})
            /\ totals[k].earned + totals[k].projected = SumCredits(courses, mapped)

C3_Witness ==
    /\ \E i \in DOMAIN courses :
          /\ "isCurrent" \notin DOMAIN courses[i]
          /\ courses[i].category = "DeptRequired"
    /\ \E i \in DOMAIN courses :
          /\ MarkedCurrent(courses[i])
          /\ courses[i].category = "DeptRequired"
    /\ totals.deptRequired = [earned |-> 2, projected |-> 3]

(***************************************************************************)
(* C4.  Courses of category Other, or of a category outside the seven      *)
(* known ones, are counted in generalElective (with the GeneralElective    *)
(* courses) and in the total, earned or projected by isCurrent: none is    *)
(* dropped.                                                                *)
(***************************************************************************)
C4_UnknownIsGeneralElective ==
    LET folded  == {i \in DOMAIN courses : FoldedCategory(courses[i])}
        general == {i \in DOMAIN courses : courses[i].category = "GeneralElective"}
        earnedOf(I) == SumCredits(courses, {i \in I : NotMarkedCurrent(courses[i])})
        projectedOf(I) == SumCredits(courses, {i \in I : MarkedCurrent(courses[i])})
    IN  /\ totals.generalElective.earned = earnedOf(folded) + earnedOf(general)
        /\ totals.generalElective.projected = projectedOf(folded) + projectedOf(general)
        /\ totals.total.earned >= earnedOf(folded)
        /\ totals.total.projected >= projectedOf(folded)
        /\ (folded = DOMAIN courses =>
              /\ totals.total = totals.generalElective
              /\ totals.total.earned + totals.total.projected
                    = SumCredits(courses, DOMAIN courses))

C4_Witness ==
    /\ Len(courses) = 2
    /\ \E i \in DOMAIN courses :
          courses[i].category = "Unknown" /\ MarkedCurrent(courses[i])
    /\ \E i \in DOMAIN courses :
          courses[i].category = "Other" /\ NotMarkedCurrent(courses[i])
    /\ totals.generalElective = [earned |-> 3, projected |-> 2]
    /\ totals.total = [earned |-> 3, projected |-> 2]

(***************************************************************************)
(* C5.  A step that adds or removes a course whose grade is Pass, or any   *)
(* value outside the closed grade set, changes neither currentGPA nor      *)
(* projectedGPA, whatever the credits, the category and isCurrent.         *)
(***************************************************************************)
Ungraded(c) == c.grade = "Pass" \/ c.grade \notin Grade

C5_UngradedStep ==
    \/ \E i \in DOMAIN courses' :
          i = Len(courses') /\ Ungraded(courses'[i]) /\ Added(courses'[i])
    \/ \E i \in DOMAIN courses : Ungraded(courses[i]) /\ RemovedAt(i)

C5_PassNeverCounts ==
    [][C5_UngradedStep =>
          /\ currentGPA(courses') = currentGPA(courses)
          /\ projectedGPA(courses') = projectedGPA(courses)]_vars

\* An ungraded course was added after a graded one, and the GPA is the graded one's.
C5_Witness ==
    /\ Len(courses) = 2
    /\ courses[1].grade = "B" /\ NotMarkedCurrent(courses[1]) /\ ~IsPE(courses[1])
    /\ Ungraded(courses[2])
    /\ currentGPA(courses) = <<"3", ".", "0", "0">>
    /\ projectedGPA(courses) = <<"3", ".", "0", "0">>

(***************************************************************************)
(* C6.  currentGPA is the credit-weighted mean of the grade points,        *)
(* rounded to two decimals, over exactly the courses that are not current, *)
(* have a letter grade (A+ .. C-, F), credits > 0 and are not physical     *)
(* education; it is 0.00 when there is none.                               *)
(***************************************************************************)
C6_CurrentGPA ==
    IsRoundedMean(currentGPA(courses), courses,
        {i \in DOMAIN courses : GpaEligible(courses[i]) /\ NotMarkedCurrent(courses[i])})

\* An exact tie: A+ with 1 credit and B with 3, mean 3.325.
C6_Witness ==
    /\ Len(courses) = 2
    /\ \A i \in DOMAIN courses : GpaEligible(courses[i]) /\ NotMarkedCurrent(courses[i])
    /\ SumTenths(courses, DOMAIN courses) = 133
    /\ SumCredits(courses, DOMAIN courses) = 4
    /\ currentGPA(courses) \in {<<"3", ".", "3", "2">>, <<"3", ".", "3", "3">>}

(***************************************************************************)
(* C7.  projectedGPA is cumulative: the rounded credit-weighted mean over  *)
(* all courses with a letter grade, credits > 0 and not physical           *)
(* education, current or not (0.00 when there is none); so without such a  *)
(* current course it equals currentGPA.                                    *)
(***************************************************************************)
C7_ProjectedGPA ==
    LET eligible == {i \in DOMAIN courses : GpaEligible(courses[i])}
    IN  /\ IsRoundedMean(projectedGPA(courses), courses, eligible)
        /\ (\A i \in eligible : NotMarkedCurrent(courses[i]))
              => projectedGPA(courses) = currentGPA(courses)

C7_Witness ==
    /\ Len(courses) = 2
    /\ \E i \in DOMAIN courses :
          GpaEligible(courses[i]) /\ NotMarkedCurrent(courses[i]) /\ courses[i].grade = "B"
    /\ \E i \in DOMAIN courses :
          GpaEligible(courses[i]) /\ MarkedCurrent(courses[i]) /\ courses[i].grade = "A+"
    /\ currentGPA(courses) = <<"3", ".", "0", "0">>
    /\ projectedGPA(courses) # currentGPA(courses)

(***************************************************************************)
(* C8.  For every course list and every permutation of it the report is    *)
(* identical in every field: each bucket and the total, earned and         *)
(* projected, currentGPA and projectedGPA.                                 *)
(***************************************************************************)
Report(cs) ==
    [totals |-> reduce(cs, initialAcc),
     currentGPA |-> currentGPA(cs),
     projectedGPA |-> projectedGPA(cs)]

Permuted(cs) == {[i \in DOMAIN cs |-> cs[f[i]]] : f \in Permutations(DOMAIN cs)}

C8_OrderIndependent ==
    \A p \in Permuted(courses) : Report(p) = Report(courses)

C10_IsExample ==
    /\ Len(courses) = 2
    /\ courses[1].credits = 3 /\ courses[1].grade = "A+"
    /\ courses[1].category = "DeptRequired"
    /\ "isCurrent" \in DOMAIN courses[1] /\ courses[1].isCurrent = FALSE
    /\ courses[2].credits = 3 /\ courses[2].grade = "B"
    /\ courses[2].category = "DeptRequired"
    /\ "isCurrent" \in DOMAIN courses[2] /\ courses[2].isCurrent = TRUE

C10_Example ==
    C10_IsExample =>
        /\ totals.deptRequired.earned = 3
        /\ totals.deptRequired.projected = 3
        /\ currentGPA(courses) = <<"4", ".", "3", "0">>
        /\ projectedGPA(courses) = <<"3", ".", "6", "5">>

C10_Witness == C10_IsExample /\ ~isLoading /\ totals.total.earned = 3

(***************************************************************************)
(* C11.  Whenever the course list is empty (initially, before and after    *)
(* loading, after the last course was deleted) the five buckets and the    *)
(* total are (earned 0, projected 0) and currentGPA and projectedGPA are   *)
(* both 0.00.                                                              *)
(***************************************************************************)
EmptyBucket == [earned |-> 0, projected |-> 0]

C11_EmptyReport ==
    courses = <<>> =>
        /\ \A k \in BucketKeys \cup {"total"} : totals[k] = EmptyBucket
        /\ DOMAIN totals = BucketKeys \cup {"total"}
        /\ currentGPA(courses) = <<"0", ".", "0", "0">>
        /\ projectedGPA(courses) = <<"0", ".", "0", "0">>

\* The empty list, rendered after the session started.
C11_Witness ==
    /\ courses = <<>>
    /\ isInitialized
    /\ ~isLoading
    /\ totals.total = EmptyBucket

(***************************************************************************)
(* Vocabulary of the ordering properties: the numeric tokens of a label    *)
(* are its maximal runs of digits, found by position, independently of     *)
(* split and parseInt.                                                     *)
(***************************************************************************)
DigitRuns(label) ==
    {r \in (DOMAIN label) \X (DOMAIN label) :
        /\ r[1] <= r[2]
        /\ \A k \in r[1]..r[2] : label[k] \in Digits
        /\ (r[1] = 1 \/ label[r[1] - 1] \notin Digits)
        /\ (r[2] = Len(label) \/ label[r[2] + 1] \notin Digits)}

\* The value of the n-th numeric token of the label, 0 when there is none.
TokenValue(label, n) ==
    LET runs == DigitRuns(label)
        nth == {r \in runs : Cardinality({q \in runs : q[1] < r[1]}) = n - 1}
    IN  IF nth = {} THEN 0
        ELSE LET r == CHOOSE q \in nth : TRUE
             IN  DigitsValue(SubSeq(label, r[1], r[2]))

\* The sort key of a course: year, term, and the place of the name.
SortKey(c) ==
    <<TokenValue(c.semester, 1), TokenValue(c.semester, 2), CollationRank(c.name)>>

\* Keys in ascending order, ties included: year, then term, then name.
KeyNoLater(ka, kb) ==
    \/ ka[1] < kb[1]
    \/ ka[1] = kb[1] /\ ka[2] < kb[2]
    \/ ka[1] = kb[1] /\ ka[2] = kb[2] /\ ka[3] <= kb[3]

SemestersOf(cs) == [i \in DOMAIN cs |-> cs[i].semester]

SameSection(cs) == \A i, j \in DOMAIN cs : cs[i].category = cs[j].category

(***************************************************************************)
(* C12.  The rows of every section of the course table are in ascending    *)
(* order of academic-year number, then term number, then name; courses of  *)
(* one section with the semesters 111-2, 111-1, 112-1, 109 (in this order  *)
(* in the list) are displayed in the order 109, 111-1, 111-2, 112-1.       *)
(***************************************************************************)
SortKeys(sections) ==
    [s \in DOMAIN sections |-> [i \in DOMAIN sections[s] |-> SortKey(sections[s][i])]]

C12_SectionsSorted ==
    \A table \in {CourseTable(courses)} :
        /\ ~table.threw
        /\ \A keys \in {SortKeys(table.sections)} :
              \A s \in DOMAIN keys :
                 \A i, j \in DOMAIN keys[s] : i < j => KeyNoLater(keys[s][i], keys[s][j])
        /\ (SameSection(courses)
              /\ SemestersOf(courses) = <<Sem111_2, Sem111_1, Sem112_1, Sem109>>)
            => SemestersOf(renderSection(courses, courses[1].category))
                  = <<Sem109, Sem111_1, Sem111_2, Sem112_1>>

\* The list of the example.
C12_Witness ==
    /\ SameSection(courses)
    /\ SemestersOf(courses) = <<Sem111_2, Sem111_1, Sem112_1, Sem109>>
    /\ SemestersOf(renderSection(courses, "DeptRequired"))
          = <<Sem109, Sem111_1, Sem111_2, Sem112_1>>

(***************************************************************************)
(* C13.  As claimed: the comparator of the rows is a total order, two      *)
(* different courses of the list compare as equal only if their semester   *)
(* labels are the same string and their names are the same, and rows that  *)
(* compare as equal are displayed in their order in the list.              *)
(***************************************************************************)
Sign(n) == IF n < 0 THEN -1 ELSE IF n > 0 THEN 1 ELSE 0

\* compareCourses over the courses of the list, by position.
CompareMatrix ==
    [i \in DOMAIN courses |->
        [j \in DOMAIN courses |-> compareCourses(courses[i], courses[j])]]

\* The comparator orders the courses of the list consistently.
ComparatorConsistent(cmp) ==
    /\ \A i, j \in DOMAIN cmp : Sign(cmp[i][j]) = -Sign(cmp[j][i])
    /\ \A i, j, k \in DOMAIN cmp :
          cmp[i][j] <= 0 /\ cmp[j][k] <= 0 => cmp[i][k] <= 0

PositionOf(cs, id) == CHOOSE i \in DOMAIN cs : cs[i].id = id

\* Rows that compare as equal keep the order they have in the list.
TiesKeepListOrder(cmp) ==
    \A table \in {CourseTable(courses)} :
        \A s \in DOMAIN table.sections :
            \A pos \in {[p \in DOMAIN table.sections[s] |->
                            PositionOf(courses, table.sections[s][p].id)]} :
                \A p, q \in DOMAIN pos :
                    p < q /\ cmp[pos[p]][pos[q]] = 0 => pos[p] < pos[q]

C13_EqualOnlyIfIdentical ==
    \A cmp \in {CompareMatrix} :
        /\ ComparatorConsistent(cmp)
        /\ TiesKeepListOrder(cmp)
        /\ \A i, j \in DOMAIN courses :
              i # j /\ cmp[i][j] = 0
              => /\ courses[i].semester = courses[j].semester
                 /\ courses[i].name = courses[j].name

(***************************************************************************)
(* C13, amended.  The comparator is a total preorder; two courses compare  *)
(* as equal exactly when their labels hold the same year and term numbers  *)
(* (the labels may differ) and their names are the same; rows that compare *)
(* as equal are displayed in their order in the list.                      *)
(***************************************************************************)
NumbersAndName ==
    [i \in DOMAIN courses |->
        <<TokenValue(courses[i].semester, 1), TokenValue(courses[i].semester, 2),
          courses[i].name>>]

C13_EqualIffSameNumbers ==
    \A cmp \in {CompareMatrix}, key \in {NumbersAndName} :
        /\ ComparatorConsistent(cmp)
        /\ TiesKeepListOrder(cmp)
        /\ \A i, j \in DOMAIN courses : cmp[i][j] = 0 <=> key[i] = key[j]

\* 111/1 before 111-1 with one name: a tie of two labels, displayed in list
\* order, next to a course the name alone puts behind them.
C13_Witness ==
    /\ Len(courses) = 3
    /\ courses[1].semester = Sem111Slash1 /\ courses[1].name = "Accounting"
    /\ courses[2].semester = Sem111_1 /\ courses[2].name = "Auditing"
    /\ courses[3].semester = Sem111_1 /\ courses[3].name = "Accounting"
    /\ compareCourses(courses[1], courses[3]) = 0
    /\ [i \in 1..3 |-> renderSection(courses, "DeptRequired")[i].id]
          = <<courses[1].id, courses[3].id, courses[2].id>>

(***************************************************************************)
(* C14.  The year and the term the comparator reads from a label are its   *)
(* first and second numeric token, 0 where there is none: a label without  *)
(* digits reads as year 0, term 0 and is ordered before every label with   *)
(* a positive year; a label with one numeric token reads as that year,     *)
(* term 0; tokens after the second are ignored.                            *)
(***************************************************************************)
C14_SemesterNumbers ==
    \A i \in DOMAIN courses :
        LET label == courses[i].semester
            ns == numbersOf(label)
            year == orZero(ns, 1)
            term == orZero(ns, 2)
            tokens == Cardinality(DigitRuns(label))
        IN  /\ year = TokenValue(label, 1)
            /\ term = TokenValue(label, 2)
            /\ (tokens = 0 => year = 0 /\ term = 0)
            /\ (tokens = 1 => term = 0)
            /\ \A j \in DOMAIN courses :
                  tokens = 0 /\ TokenValue(courses[j].semester, 1) > 0
                  => compareSemesters(label, courses[j].semester) < 0

\* A label without digits, one with an empty piece between its two numbers
\* and one with a single number.
C14_Witness ==
    /\ Len(courses) = 3
    /\ courses[1].semester = Sem111DashDash2
    /\ courses[2].semester = SemNoDigits
    /\ courses[3].semester = Sem109
    /\ [i \in 1..3 |-> renderSection(courses, "DeptRequired")[i].semester]
          = <<SemNoDigits, Sem109, Sem111DashDash2>>
    /\ compareSemesters(Sem111DashDash2, Sem111_2) = 0

(***************************************************************************)
(* C15.  For each of the five categories (every target is positive, no     *)
(* credit sum negative): met is earned >= target, met including projected  *)
(* is earned + projected >= target, the two percentages are                *)
(* earned / target * 100 and (earned + projected) / target * 100, each     *)
(* capped at 100; so met implies met including projected, and the width    *)
(* of the projected segment, their difference, is not negative.            *)
(***************************************************************************)
\* |x * d - n| <= d * 2^-36: the double x is n / d up to rounding.
IsQuotient(x, n, d) ==
    LET scaled == Normalize(x[1] * d, x[2] * d, x[3] * d)
        exact == IntD(n)
        gap == IF LeD(scaled, exact) THEN Borrow(exact, scaled) ELSE Borrow(scaled, exact)
    IN  LeD(gap, <<0, d, 0>>)

\* pct is credits / target * 100 capped at 100.
IsCappedPercentage(pct, credits, target) ==
    IF credits >= target THEN pct = IntD(100)
    ELSE IsQuotient(pct, 100 * credits, target) /\ LeD(pct, IntD(100)) /\ pct # IntD(100)

C15_ProgressBars ==
    \A bars \in {progressBars(totals, requirements)} :
        \A k \in BucketKeys :
            LET earned == totals[k].earned
                projected == totals[k].projected
                target == requirements[k]
                bar == bars[k]
            IN  /\ target > 0 /\ earned >= 0 /\ projected >= 0
                /\ bar.isMet <=> earned >= target
                /\ bar.isMetProjected <=> earned + projected >= target
                /\ IsCappedPercentage(bar.earnedPct, earned, target)
                /\ IsCappedPercentage(bar.projectedPct, earned + projected, target)
                /\ bar.isMet => bar.isMetProjected
                /\ ~bar.extraPct.negative
                /\ LeD(bar.earnedPct, bar.projectedPct)

\* 5 of 9 credits earned and 4 in progress: not met, met with the projected
\* credits, and a projected segment that fills the bar.
C15_Witness ==
    /\ totals.commonRequired = [earned |-> 5, projected |-> 4]
    /\ \A bar \in {renderProgressBar(5, 4, requirements.commonRequired)} :
          /\ ~bar.isMet
          /\ bar.isMetProjected
          /\ bar.projectedPct = IntD(100)
          /\ ~LeD(IntD(56), bar.earnedPct) /\ LeD(IntD(55), bar.earnedPct)
          /\ ~LeD(IntD(45), bar.extraPct.magnitude) /\ LeD(IntD(44), bar.extraPct.magnitude)

(***************************************************************************)
(* C16.  The course table displays every course of the list in exactly     *)
(* one section, physical education included: a course of one of the seven  *)
(* categories in the section of its category, a course of any other        *)
(* category in the section Other; the rows number the length of the list.  *)
(***************************************************************************)
\* The rows of all sections, section after section.
RECURSIVE Concatenated(_)
Concatenated(sections) ==
    IF sections = <<>> THEN <<>> ELSE Head(sections) \o Concatenated(Tail(sections))

SectionIndex(category) == CHOOSE s \in DOMAIN SectionOrder : SectionOrder[s] = category

C16_EveryCourseListed ==
    \A table \in {CourseTable(courses)} :
        /\ ~table.threw
        /\ Len(Concatenated(table.sections)) = Len(courses)
        /\ \A i \in DOMAIN courses :
              LET home == IF courses[i].category \in CourseCategory
                          THEN SectionIndex(courses[i].category)
                          ELSE SectionIndex("Other")
              IN  \A s \in DOMAIN table.sections :
                      Cardinality({r \in DOMAIN table.sections[s] :
                                      table.sections[s][r] = courses[i]})
                          = IF s = home THEN 1 ELSE 0

(***************************************************************************)
(* Vocabulary of the saving properties.                                    *)
(***************************************************************************)
\* The requests issued by the step.
Issued == requests' \ requests

\* The step changes the course list of an initialized session.
Mutation == courses' # courses /\ isInitialized'

\* After the step one timeout is pending: a new one, for the new list.
OneNewTimer == timers' = {[id |-> handler', courses |-> courses']}

\* The step is the end of a save that failed.
SaveFailedStep == \E r \in responses : ~r.ok /\ responses' = responses \ {r}

(***************************************************************************)
(* C17.  At most one save timeout is pending at any time; a step that      *)
(* changes the course list cancels the pending timeout, starts a new one   *)
(* and issues no request; a request is issued only by a step that takes    *)
(* the pending timeout away while the list stays as it is, one request     *)
(* per timeout that ran: the changes made while a timeout was pending      *)
(* share one request.                                                      *)
(***************************************************************************)
C17_Debounced ==
    [][/\ Cardinality(timers') <= 1
       /\ Mutation => OneNewTimer /\ Issued = {}
       /\ Issued # {} =>
             /\ Cardinality(Issued) = 1
             /\ courses' = courses
             /\ \E t \in timers : timers' = timers \ {t} /\ timers' = {}]_vars

\* The list was changed after the start (its course has a grade of the form,
\* not of the basket) and nothing was sent: one timeout, for the changed list.
C17_Witness ==
    /\ Len(courses) = 1
    /\ courses[1].grade = "A+"
    /\ timers = {[id |-> handler, courses |-> courses]}
    /\ requests = {} /\ responses = {}
    /\ basket = NoData
    /\ syncStatus = "saving"

(***************************************************************************)
(* C18.  Every request issued carries as its body the whole course list    *)
(* as it is in memory in the step that issues it.                          *)
(***************************************************************************)
C18_SavesCurrentList ==
    [][\A r \in Issued : r.body = [courses |-> courses] /\ courses' = courses]_vars

\* A request with the current, non-empty list is on its way.
C18_Witness ==
    /\ Len(courses) = 1
    /\ \E r \in requests : r.body.courses = courses
    /\ timers = {}

(***************************************************************************)
(* C19.  With a network and a basket that never fail: once every save has  *)
(* completed (no timeout pending, no request or answer on its way), the    *)
(* basket holds the body of the newest save, the current course list, also *)
(* when an older save was still on its way when the newest was issued.     *)
(***************************************************************************)
C19_NewerSaveWins ==
    (isInitialized /\ timers = {} /\ requests = {} /\ responses = {})
        => basket = [courses |-> courses]

(***************************************************************************)
(* C20.  The end of a failed save (an answer that is not ok, or a network  *)
(* error) leaves the course list as it is and sets the status to error;    *)
(* it starts no timeout and issues no request, and while the status stays  *)
(* error no new timeout is started and the only request issued is the one  *)
(* of a timeout that was pending already; the next change of the list      *)
(* sets the status to saving and starts a timeout for the changed list.    *)
(***************************************************************************)
C20_FailedSave ==
    [][/\ SaveFailedStep =>
             /\ courses' = courses
             /\ syncStatus' = "error"
             /\ timers' = timers /\ handler' = handler
             /\ Issued = {}
       /\ (syncStatus = "error" /\ syncStatus' = "error") =>
             /\ timers' \subseteq timers
             /\ courses' = courses
             /\ \A r \in Issued : \E t \in timers \ timers' : r.body.courses = t.courses
       /\ (syncStatus = "error" /\ Mutation) =>
             /\ syncStatus' = "saving"
             /\ OneNewTimer]_vars

\* A save of the list with one course failed: the list is intact, the basket
\* was never written and nothing is pending.
C20_Witness ==
    /\ syncStatus = "error"
    /\ Len(courses) = 1
    /\ timers = {} /\ requests = {} /\ responses = {}
    /\ basket = NoData

(***************************************************************************)
(* C24.  Whenever the status is synced, the basket holds the course list   *)
(* as it is in memory: the answer to an older save that arrives after a    *)
(* newer change of the list does not set the status to synced while that   *)
(* change is unsaved.                                                      *)
(***************************************************************************)
C24_SyncedMeansStored ==
    syncStatus = "synced" => basket = [courses |-> courses]

(***************************************************************************)
(* C26.  While the initial load has not finished (isLoading), the status   *)
(* is idle, no save timeout is pending and no request was sent; a step      *)
(* taken meanwhile sends no request and leaves the course list alone        *)
(* unless it is the end of the load.  The save effect that runs after the   *)
(* first render does nothing.                                               *)
(***************************************************************************)
C26_NothingBeforeLoad ==
    [][/\ isLoading =>
             /\ syncStatus = "idle" /\ timers = {} /\ requests = {}
             /\ Issued = {}
             /\ courses' # courses => ~isLoading'
       /\ isLoading' =>
             /\ syncStatus' = "idle" /\ timers' = {} /\ handler' = NoHandler
             /\ courses' = courses]_vars

\* The load is on its way, the save effect of the first render has run.
C26_Witness ==
    /\ fetchData = "awaiting"
    /\ isLoading /\ ~isInitialized
    /\ syncStatus = "idle" /\ timers = {} /\ handler = NoHandler
    /\ requests = {} /\ courses = <<>>

(***************************************************************************)
(* Vocabulary of the import properties.                                    *)
(***************************************************************************)
\* The step in which handleAnalyze runs to its end.
AnalysisEnds == analysis.state = "answered" /\ analysis' = NoAnalysis

\* The failures of an analysis: the call fails, the text is no JSON, the JSON
\* is no array, the array is empty.
FailedAnswer(answer) ==
    \/ answer \in {Rejected, InvalidJSON, NotArray}
    \/ answer.kind = "array" /\ Len(answer.items) = 0

\* The step closes the modal.
ModalCloses == isImportModalOpen /\ ~isImportModalOpen'

\* The characters of s from the first to the last that is not a space.
Core(s) ==
    LET I == {i \in DOMAIN s : s[i] # " "}
    IN  IF I = {} THEN <<>>
        ELSE SubSeq(s, CHOOSE i \in I : \A j \in I : i <= j,
                       CHOOSE i \in I : \A j \in I : j <= i)

\* The closed grade a raw grade stands for: the letter grade it spells, in
\* either case and with spaces around it, and Pass in every other case.
ExpectedGrade(raw) ==
    LET spelled == IF raw.type = "string" THEN toUpperCase(Core(raw.chars)) ELSE <<>>
        letters == {g \in Grade : LetterGrade(g) /\ valid[g] = spelled}
    IN  IF letters = {} THEN "Pass" ELSE CHOOSE g \in letters : TRUE

(***************************************************************************)
(* C22.  The step in which a failed analysis ends (the call failed, the    *)
(* text was no JSON, the JSON no array, or an empty array) leaves the      *)
(* course list and the candidates as they are, finds and leaves the modal  *)
(* in the input step, and sets the error.                                  *)
(***************************************************************************)
C22_FailedAnalysis ==
    [][(AnalysisEnds /\ FailedAnswer(analysis.answer)) =>
          /\ courses' = courses
          /\ step = "input" /\ step' = "input"
          /\ error' # null
          /\ parsedCourses' = parsedCourses
          /\ ~isAnalyzing']_vars

\* An analysis of pasted text failed: the open modal shows the error in the
\* input step and has no candidates.
C22_Witness ==
    /\ isImportModalOpen
    /\ step = "input"
    /\ error # null
    /\ parsedCourses = <<>>
    /\ rawText = "transcript"
    /\ ~isAnalyzing /\ analysis = NoAnalysis

(***************************************************************************)
(* C23.  The grade of every candidate is in the closed grade set, at any   *)
(* time; the step in which an analysis succeeds makes one candidate of     *)
(* each item, whose grade is the letter grade the raw grade spells after   *)
(* trimming and upper-casing, and Pass for every other raw grade, whose    *)
(* category is GeneralElective and whose isCurrent is false.               *)
(***************************************************************************)
C23_CandidateDefaults ==
    [][/\ \A i \in DOMAIN parsedCourses' : parsedCourses'[i].grade \in Grade
       /\ (AnalysisEnds /\ step' = "review") =>
             /\ Len(parsedCourses') = Len(analysis.answer.items)
             /\ \A i \in DOMAIN parsedCourses' :
                   /\ parsedCourses'[i].grade = ExpectedGrade(analysis.answer.items[i].grade)
                   /\ parsedCourses'[i].category = "GeneralElective"
                   /\ parsedCourses'[i].isCurrent = FALSE]_vars

\* A candidate in review with the grade A-, which only the raw grade " a- "
\* gives, and the defaults.
C23_Witness ==
    /\ step = "review"
    /\ Len(parsedCourses) = 1
    /\ parsedCourses[1].grade = "A-"
    /\ parsedCourses[1].category = "GeneralElective"
    /\ parsedCourses[1].isCurrent = FALSE

(***************************************************************************)
(* C25.  After a load that brought no data (a response that is not ok, a   *)
(* failed fetch) and with a user who changes nothing, no save request is   *)
(* sent and the basket is not written.                                     *)
(***************************************************************************)
C25_NoSaveAfterFailedLoad ==
    fetchData = "finished" => requests = {} /\ basket = NoData

(***************************************************************************)
(* Vocabulary of the identity properties.                                  *)
(***************************************************************************)
IdsOf(cs) == [i \in DOMAIN cs |-> cs[i].id]

DistinctIds(cs) == \A i, j \in DOMAIN cs : i # j => cs[i].id # cs[j].id

\* The sequence s without its i-th element.
Without(s, i) == [k \in 1..(Len(s) - 1) |-> IF k < i THEN s[k] ELSE s[k + 1]]

\* s is the beginning of t.
IsPrefix(s, t) == Len(s) <= Len(t) /\ \A k \in DOMAIN s : t[k] = s[k]

(***************************************************************************)
(* C21.  Once the list is loaded: the values being edited carry the        *)
(* identifier of the row being edited, which is a course of the list; a    *)
(* step that changes the list and keeps its length puts the edited values  *)
(* in the place of the one course with their identifier, which they keep,  *)
(* and leaves every other course and the order alone; a step that shortens *)
(* the list takes out one course and keeps the others in their order.      *)
(***************************************************************************)
C21_UpdateAndDelete ==
    [][~isLoading =>
          /\ editValues' # NoEditValues =>
                editValues'.id = editingId' /\ editingId' \in Ids(courses')
          /\ (Len(courses') = Len(courses) /\ courses' # courses) =>
                /\ editValues # NoEditValues
                /\ \E i \in DOMAIN courses :
                      /\ courses[i].id = editValues.id
                      /\ courses' = [courses EXCEPT ![i] = editValues]
                      /\ courses'[i].id = courses[i].id
          /\ Len(courses') < Len(courses) =>
                \E i \in DOMAIN courses :
                   /\ courses' = Without(courses, i)
                   /\ courses[i].id \notin Ids(courses')]_vars

\* The second course of two was edited to 5 credits and saved; the first is
\* as the basket held it.
C21_Witness ==
    /\ Len(courses) = 2
    /\ courses[1].grade = "B" /\ courses[1].credits = 2 /\ courses[1].id = 1
    /\ courses[2].credits = 5 /\ courses[2].id = 2
    /\ editValues = NoEditValues

(***************************************************************************)
(* C27.  A step from a list with pairwise distinct identifiers leads to a  *)
(* list with pairwise distinct identifiers; once the list is loaded, a     *)
(* step keeps the identifiers and their order (an update), takes one       *)
(* identifier out and keeps the others in their order (a delete), or       *)
(* keeps them all and puts identifiers the list did not have behind them   *)
(* (an add, an import): no course ever changes its identifier.            *)
(***************************************************************************)
C27_IdsUniqueAndStable ==
    [][DistinctIds(courses) =>
          /\ DistinctIds(courses')
          /\ ~isLoading =>
                \A old \in {IdsOf(courses)}, new \in {IdsOf(courses')} :
                   \/ new = old
                   \/ \E i \in DOMAIN old : new = Without(old, i)
                   \/ /\ IsPrefix(old, new)
                      /\ \A k \in (DOMAIN new) \ (DOMAIN old) : new[k] \notin Ids(courses)]_vars

\* After a delete and an add: the course that stayed kept its identifier and
\* the new one was given another.
C27_Witness ==
    /\ Len(courses) = 2
    /\ courses[1].id = 2
    /\ courses[2].id = 1

(***************************************************************************)
(* C28.  Once the list is loaded it changes only in a step that closes the *)
(* modal from the review step; that step keeps the courses it finds, in    *)
(* their order, and puts behind them one course for each candidate then in *)
(* review that has a name and numeric credits, in the order of the review, *)
(* with the candidate's fields and an identifier the list did not have.    *)
(* Every step that closes the modal leaves it in the input step with no    *)
(* candidates, no text, no file and no error.                              *)
(***************************************************************************)
C28_ImportAppends ==
    [][/\ (~isLoading /\ courses' # courses) => ModalCloses /\ step = "review"
       /\ ModalCloses =>
             /\ step' = "input" /\ parsedCourses' = <<>> /\ error' = null
             /\ rawText' = "" /\ selectedFile' = null
       /\ (ModalCloses /\ courses' # courses) =>
             \A rows \in {SelectSeq(parsedCourses,
                                    LAMBDA c : c.name # "" /\ c.credits \in Nat)} :
                /\ Len(courses') = Len(courses) + Len(rows)
                /\ IsPrefix(courses, courses')
                /\ DistinctIds(courses')
                /\ \A k \in DOMAIN rows :
                      \A c \in {courses'[Len(courses) + k]} :
                         /\ c.id \notin Ids(courses)
                         /\ c.semester = rows[k].semester /\ c.name = rows[k].name
                         /\ c.credits = rows[k].credits /\ c.grade = rows[k].grade
                         /\ c.category = rows[k].category
                         /\ c.isCurrent = rows[k].isCurrent]_vars

\* A candidate, moved to DeptRequired in review, was imported behind the
\* course the basket held; the modal is closed and reset.
C28_Witness ==
    /\ Len(courses) = 2
    /\ courses[1].grade = "B" /\ courses[1].id = 1
    /\ courses[2].name = "Accounting" /\ courses[2].grade = "A+"
    /\ courses[2].category = "DeptRequired" /\ courses[2].id = 2
    /\ ~isImportModalOpen
    /\ step = "input" /\ parsedCourses = <<>>

(***************************************************************************)
(* C29.  Whenever the modal is closed it is in the input step, with no     *)
(* candidates and no error, so that it opens again like that; also when    *)
(* an analysis was on its way at the close and ends after it.              *)
(***************************************************************************)
C29_ClosedModalIsReset ==
    ~isImportModalOpen => step = "input" /\ parsedCourses = <<>> /\ error = null

(***************************************************************************)
(* C30.  In each of the six progress bars, the five of the categories and  *)
(* the one of the total, the width of the earned segment plus the width of *)
(* the projected segment is at most 100 (percent).                         *)
(***************************************************************************)
C30_SegmentsFit ==
    \A bars \in {progressBars(totals, requirements)},
       total \in {totalProgressBar(totals, requirements)} :
        /\ \A k \in BucketKeys :
              /\ ~bars[k].extraPct.negative
              /\ LeD(AddD(bars[k].earnedPct, bars[k].extraPct.magnitude), IntD(100))
        /\ LeD(AddD(total.earnedPct, total.projectedPct), IntD(100))

====
